---- MODULE Spec2Model ----
(***************************************************************************)
(* Candidate generation and matching engines of PasswordCrack-Suite:       *)
(* DictionaryEngine, BruteforceEngine, MaskEngine, HybridEngine and        *)
(* RuleEngine, together with the HashUtils and WordlistManager code they   *)
(* call.  A Python str is modelled as a sequence of one-character strings. *)
(***************************************************************************)
EXTENDS Integers, Sequences, FiniteSets, TLC

(***************************************************************************)
(* Bounds of the model.                                                    *)
(***************************************************************************)
\* largest min_length / max_length argument given to BruteforceEngine
MaxLength == 2
\* largest max_attempts argument given to attack()
MaxCap == 3

(***************************************************************************)
(* Characters and str methods.                                             *)
(***************************************************************************)
\* Python None, as a value comparable with a str
None == <<"None">>

\* a lone surrogate code point: str.encode('utf-8') raises UnicodeEncodeError
SUR == "\\ud800"

lowercase == <<"a", "b", "c", "d", "e", "f", "g", "h", "i", "j", "k", "l", "m", "n", "o", "p", "q", "r", "s", "t", "u", "v", "w", "x", "y", "z">>
uppercase == <<"A", "B", "C", "D", "E", "F", "G", "H", "I", "J", "K", "L", "M", "N", "O", "P", "Q", "R", "S", "T", "U", "V", "W", "X", "Y", "Z">>
digits == <<"0", "1", "2", "3", "4", "5", "6", "7", "8", "9">>
special == <<"!", "@", "#", "$", "%", "^", "&", "*", "(", ")", "_", "+", "-", "=", "[", "]", "{", "}", "|", ";", ":", ",", ".", "<", ">", "?">>
hexlower == <<"0", "1", "2", "3", "4", "5", "6", "7", "8", "9", "a", "b", "c", "d", "e", "f">>
hexupper == <<"0", "1", "2", "3", "4", "5", "6", "7", "8", "9", "A", "B", "C", "D", "E", "F">>

Whitespace == {" ", "\t", "\n"}

Range(s) == {s[i] : i \in 1..Len(s)}

IndexOf(ch, s) == CHOOSE i \in 1..Len(s) : s[i] = ch

\* the case mappings of str.lower() and str.upper()
LowerMap == [ch \in Range(uppercase) |-> lowercase[IndexOf(ch, uppercase)]]
UpperMap == [ch \in Range(lowercase) |-> uppercase[IndexOf(ch, lowercase)]]

\* str.lower() on one character
LowerChar(ch) == IF ch \in DOMAIN LowerMap THEN LowerMap[ch] ELSE ch

\* str.upper() on one character
UpperChar(ch) == IF ch \in DOMAIN UpperMap THEN UpperMap[ch] ELSE ch

\* str.lower()
Lower(s) == [i \in 1..Len(s) |-> LowerChar(s[i])]

\* str.upper()
Upper(s) == [i \in 1..Len(s) |-> UpperChar(s[i])]

RECURSIVE LStrip(_)
LStrip(s) == IF s # <<>> /\ Head(s) \in Whitespace THEN LStrip(Tail(s)) ELSE s

RECURSIVE RStrip(_)
RStrip(s) == IF s # <<>> /\ s[Len(s)] \in Whitespace THEN RStrip(SubSeq(s, 1, Len(s) - 1)) ELSE s

\* str.strip()
Strip(s) == RStrip(LStrip(s))

\* str.split(sep) for a one-character separator: the list of the parts
RECURSIVE SplitAcc(_, _, _, _)
SplitAcc(s, sep, cur, acc) ==
    IF s = <<>> THEN Append(acc, cur)
    ELSE IF Head(s) = sep THEN SplitAcc(Tail(s), sep, <<>>, Append(acc, cur))
    ELSE SplitAcc(Tail(s), sep, Append(cur, Head(s)), acc)

Split(s, sep) == SplitAcc(s, sep, <<>>, <<>>)

RECURSIVE Join(_)
Join(parts) == IF parts = <<>> THEN <<>> ELSE Head(parts) \o Join(Tail(parts))

(***************************************************************************)
(* hash_utils.py: HashAlgorithm and HashUtils.  The digest functions of    *)
(* hashlib, bcrypt and argon2 are deterministic functions of their         *)
(* arguments; an arithmetic checksum written in hexadecimal or in the      *)
(* crypt base-64 alphabet stands for each of them.                         *)
(***************************************************************************)
MD5 == "md5"
SHA1 == "sha1"
SHA256 == "sha256"
SHA512 == "sha512"
NTLM == "ntlm"
BCRYPT == "bcrypt"
PBKDF2_SHA256 == "pbkdf2_sha256"
ARGON2 == "argon2"

HashAlgorithm == {MD5, SHA1, SHA256, SHA512, NTLM, BCRYPT, PBKDF2_SHA256, ARGON2}

\* the membership list of _try_password
VerifyStyle == {BCRYPT, ARGON2, PBKDF2_SHA256}

FastUnsalted == HashAlgorithm \ VerifyStyle

AllChars == lowercase \o uppercase \o digits \o special \o <<" ", "/", SUR>>

CharCodes == [ch \in Range(AllChars) |-> IndexOf(ch, AllChars)]

CharCode(ch) == IF ch \in DOMAIN CharCodes THEN CharCodes[ch] ELSE 0

AlgSeed(algorithm) ==
    CASE algorithm = MD5 -> 1
      [] algorithm = SHA1 -> 2
      [] algorithm = SHA256 -> 3
      [] algorithm = SHA512 -> 4
      [] algorithm = NTLM -> 5
      [] algorithm = BCRYPT -> 6
      [] algorithm = PBKDF2_SHA256 -> 7
      [] algorithm = ARGON2 -> 8

RECURSIVE Checksum(_, _)
Checksum(bytes, acc) ==
    IF bytes = <<>> THEN acc
    ELSE Checksum(Tail(bytes), (acc * 31 + CharCode(Head(bytes))) % 256)

\* bytes.hex() / hexdigest(): two lower-case hexadecimal digits
Hex(n) == <<hexlower[((n \div 16) % 16) + 1], hexlower[(n % 16) + 1]>>

\* password.encode(...) raises UnicodeEncodeError on a lone surrogate
EncodeRaises(password) == \E k \in 1..Len(password) : password[k] = SUR

\* hashlib.<algorithm>(password_bytes).hexdigest()
hexdigest(password, algorithm) == Hex(Checksum(password, AlgSeed(algorithm)))

\* the alphabet of the salt and hash fields of a bcrypt / argon2 digest
Base64 == <<".", "/">> \o uppercase \o lowercase \o digits
Base64Set == Range(Base64)

BcryptPrefix == <<"$", "2", "b", "$">>
Argon2Prefix == <<"$", "a", "r", "g", "o", "n", "2", "$">>

\* bcrypt.hashpw(password, salt): prefix, salt field, hash field
hashpw(password, salt) ==
    BcryptPrefix \o <<salt, Base64[(Checksum(Append(password, salt), AlgSeed(BCRYPT)) % Len(Base64)) + 1]>>

\* PasswordHasher.hash with a given salt: prefix, salt field, hash field
argon2_hash(password, salt) ==
    Argon2Prefix \o <<salt, Base64[(Checksum(Append(password, salt), AlgSeed(ARGON2)) % Len(Base64)) + 1]>>

\* bcrypt.checkpw: raises on an invalid salt, else recomputes with the salt of the digest
checkpw(password, hash_value) ==
    /\ Len(hash_value) = Len(BcryptPrefix) + 2
    /\ SubSeq(hash_value, 1, Len(BcryptPrefix)) = BcryptPrefix
    /\ hash_value[Len(BcryptPrefix) + 1] \in Base64Set
    /\ hashpw(password, hash_value[Len(BcryptPrefix) + 1]) = hash_value

\* PasswordHasher.verify: raises on a malformed or mismatching digest
argon2_verify(hash_value, password) ==
    /\ Len(hash_value) = Len(Argon2Prefix) + 2
    /\ SubSeq(hash_value, 1, Len(Argon2Prefix)) = Argon2Prefix
    /\ hash_value[Len(Argon2Prefix) + 1] \in Base64Set
    /\ argon2_hash(password, hash_value[Len(Argon2Prefix) + 1]) = hash_value

DigitSet == Range(digits)
HexSet == Range(hexlower) \cup Range(hexupper)

\* int(parts[0]) succeeds
IsInt(s) == s # <<>> /\ \A k \in 1..Len(s) : s[k] \in DigitSet

\* bytes.fromhex(parts[1]) succeeds
IsHex(s) == Len(s) % 2 = 0 /\ \A k \in 1..Len(s) : s[k] \in HexSet

\* hashlib.pbkdf2_hmac('sha256', password, salt, iterations).hex()
pbkdf2_hmac(password, salt, iterations) ==
    Hex(Checksum(password \o Lower(salt) \o iterations, AlgSeed(PBKDF2_SHA256)))

\* f"{iterations}" for iterations = max(rounds * 10000, 100000) with rounds = 10
Iterations == <<"1", "0", "0", "0", "0", "0">>

(***************************************************************************)
(* State.                                                                  *)
(***************************************************************************)
VARIABLES
    BCRYPT_AVAILABLE,   \* hash_utils.BCRYPT_AVAILABLE
    ARGON2_AVAILABLE,   \* hash_utils.ARGON2_AVAILABLE
    backend_fault,      \* algorithms whose library hashing call raises in this environment
    MASK_CHARS,         \* MaskEngine.MASK_CHARS (class attribute)
    engine,             \* class of the engine instance
    supplied_hash,      \* the hash_value argument of __init__
    hash_value,         \* self.hash_value
    algorithm,          \* self.algorithm
    charset,            \* self.charset
    min_length,         \* self.min_length
    max_length,         \* self.max_length
    supplied_length,    \* the min_length and max_length arguments of BruteforceEngine.__init__
    mask,               \* self.mask, or the mask argument of HybridEngine.attack
    mask_positions,     \* self.mask_positions
    attempts,           \* self.attempts
    found,              \* self.found
    found_password,     \* self.found_password
    wordlist_file,      \* argument of attack()
    position,           \* argument of HybridEngine.attack
    rules,              \* argument of RuleEngine.attack
    max_attempts,       \* argument of attack()
    progress_callback,  \* argument of attack(): None or an observer
    mask_variants,      \* local of HybridEngine.attack
    candidate,          \* loop variable of attack()
    gen,                \* position of the candidate generator
    pc,                 \* control point of the engine
    outcome,            \* how the last attack() ended
    result,             \* value returned by the last attack()
    pulled,             \* candidates obtained from the generator in this run
    tested,             \* candidates passed to _try_password in this run
    progress,           \* calls made to progress_callback in this run
    previous,           \* what the caller saw of the preceding attack() when this one repeats its arguments
    cancel_at,          \* the stop request of the host: <<>> or <<candidates tested when it was made>>
    is_match,           \* local of attack_generator(): the pair last yielded is (candidate, is_match)
    pattern,            \* argument of MaskEngine.build_mask
    built,              \* value returned by MaskEngine.build_mask: <<>> or <<mask>>
    keyspace,           \* value returned by HashcatWrapper.calculate_mask_keyspace: <<>> or <<n>>
    other               \* the attributes, arguments and locals of a second engine instance while this one runs

envVars == <<BCRYPT_AVAILABLE, ARGON2_AVAILABLE, backend_fault>>
cfgVars == <<engine, supplied_hash, hash_value, algorithm, charset, min_length, max_length, supplied_length, mask_positions>>
selfVars == <<attempts, found, found_password>>
argVars == <<wordlist_file, position, rules, max_attempts, progress_callback>>
runVars == <<mask_variants, candidate, gen, outcome, result, pulled, tested, progress>>
hostVars == <<previous, cancel_at>>
toolVars == <<pattern, built, keyspace>>
extVars == <<is_match, toolVars, other>>
vars == <<envVars, MASK_CHARS, cfgVars, mask, selfVars, argVars, runVars, pc, hostVars, extVars>>

(***************************************************************************)
(* HashUtils.generate_hash and HashUtils.verify_hash.                      *)
(***************************************************************************)
\* generate_hash raises instead of returning
generate_hash_raises(password, alg) ==
    \/ EncodeRaises(password)
    \/ alg = BCRYPT /\ ~BCRYPT_AVAILABLE
    \/ alg = ARGON2 /\ ~ARGON2_AVAILABLE
    \/ alg \notin HashAlgorithm
    \/ alg \in backend_fault

\* the string generate_hash returns; salt is the salt drawn by gensalt / os.urandom
generate_hash(password, alg, salt) ==
    CASE alg \in FastUnsalted -> hexdigest(password, alg)
      [] alg = BCRYPT -> hashpw(password, salt[1])
      [] alg = PBKDF2_SHA256 -> Iterations \o <<"$">> \o Lower(salt) \o <<"$">> \o pbkdf2_hmac(password, salt, Iterations)
      [] alg = ARGON2 -> argon2_hash(password, salt[1])

verify_hash(password, hv, alg) ==
    CASE alg = BCRYPT ->
            /\ BCRYPT_AVAILABLE
            /\ ~EncodeRaises(password)
            /\ checkpw(password, hv)
      [] alg = ARGON2 ->
            /\ ARGON2_AVAILABLE
            /\ ~EncodeRaises(password)
            /\ argon2_verify(hv, password)
      [] alg = PBKDF2_SHA256 ->
            LET parts == Split(hv, "$") IN
            /\ Len(parts) = 3
            /\ IsInt(parts[1])
            /\ IsHex(parts[2])
            /\ Range(parts[1]) # {"0"}
            /\ ~EncodeRaises(password)
            /\ pbkdf2_hmac(password, parts[2], parts[1]) = parts[3]
      [] OTHER ->
            /\ ~generate_hash_raises(password, alg)
            /\ Lower(hexdigest(password, alg)) = Lower(hv)

(***************************************************************************)
(* _try_password, identical in the five engines.                           *)
(***************************************************************************)
try_password(password, salt) ==
    IF generate_hash_raises(password, algorithm) THEN FALSE
    ELSE LET candidate_hash == generate_hash(password, algorithm, salt) IN
         IF algorithm \in VerifyStyle
         THEN verify_hash(password, hash_value, algorithm)
         ELSE Lower(candidate_hash) = Lower(hash_value)

(***************************************************************************)
(* itertools.product: an odometer over the pools, rightmost fastest.       *)
(***************************************************************************)
\* the first index vector; product yields nothing when a pool is empty
ProductEmpty(pools) == \E i \in 1..Len(pools) : pools[i] = <<>>

ProductFirst(pools) == [i \in 1..Len(pools) |-> 1]

\* positions that can still be advanced
Advanceable(idx, pools) == {i \in 1..Len(pools) : idx[i] < Len(pools[i])}

ProductHasNext(idx, pools) == Advanceable(idx, pools) # {}

\* an odometer whose leftmost position is the fastest
Pivot_Leftmost(idx, pools) == CHOOSE i \in Advanceable(idx, pools) : \A j \in Advanceable(idx, pools) : i <= j

\* the position the odometer advances
Pivot(idx, pools) == CHOOSE i \in Advanceable(idx, pools) : \A j \in Advanceable(idx, pools) : j <= i

ProductNext(idx, pools) ==
    LET p == Pivot(idx, pools) IN
    SubSeq(idx, 1, p - 1) \o <<idx[p] + 1>> \o [i \in 1..(Len(pools) - p) |-> 1]

\* ''.join(combo)
Combo(idx, pools) == [i \in 1..Len(pools) |-> pools[i][idx[i]]]

(***************************************************************************)
(* wordlist_manager.py: WordlistManager.load_wordlist.                     *)
(***************************************************************************)
WordlistFiles == {"missing.txt", "empty.txt", "words.txt", "one.txt", "broken.txt"}

FileExists(filename) == filename # "missing.txt"

\* the lines of the files below wordlist_dir
FileLines(filename) ==
    CASE filename = "words.txt" -> << <<"a", "b">>, <<>>, <<"#", "c">>, <<" ", "b", "\n">>, <<"A", "7">> >>
      [] filename = "one.txt" -> << <<"S", "a", "l", "e", "s">> >>
      [] filename = "broken.txt" -> << <<"a", "b">> >>
      [] OTHER -> << >>

\* the line at which reading the file raises OSError (0: every line can be read)
ReadFailsAt(filename) == IF filename = "broken.txt" THEN Len(FileLines(filename)) + 1 ELSE 0

\* word = line.strip(); yielded if word and not word.startswith('#')
IsWord(line) == Strip(line) # <<>> /\ Head(Strip(line)) # "#"

\* line numbers still to be yielded after line n
WordLinesAfter(filename, n) == {k \in (n + 1)..Len(FileLines(filename)) : IsWord(FileLines(filename)[k])}

\* the least element of a non-empty set of line numbers
FirstLine(S) == CHOOSE k \in S : \A j \in S : k <= j

\* load_wordlist with a read error taken for the end of the file
load_wordlist_next_Swallows(filename, n) ==
    IF ~FileExists(filename) THEN [status |-> "raise", line |-> n, word |-> None]
    ELSE IF WordLinesAfter(filename, n) # {}
    THEN LET k == FirstLine(WordLinesAfter(filename, n))
         IN [status |-> "item", line |-> k, word |-> Strip(FileLines(filename)[k])]
    ELSE [status |-> "stop", line |-> n, word |-> None]

\* next() on the load_wordlist generator that has consumed n lines: the next
\* word, the end of the file, or the IOError raised for a failed open or read
load_wordlist_next(filename, n) ==
    IF ~FileExists(filename) THEN [status |-> "raise", line |-> n, word |-> None]
    ELSE IF WordLinesAfter(filename, n) # {}
    THEN LET k == FirstLine(WordLinesAfter(filename, n))
         IN [status |-> "item", line |-> k, word |-> Strip(FileLines(filename)[k])]
    ELSE IF ReadFailsAt(filename) > n THEN [status |-> "raise", line |-> n, word |-> None]
    ELSE [status |-> "stop", line |-> n, word |-> None]

(***************************************************************************)
(* bruteforce_engine.py                                                    *)
(***************************************************************************)
CHARSETS ==
    (<< "l", "o", "w", "e", "r", "c", "a", "s", "e" >> :> lowercase)
    @@ (<< "u", "p", "p", "e", "r", "c", "a", "s", "e" >> :> uppercase)
    @@ (<< "d", "i", "g", "i", "t", "s" >> :> digits)
    @@ (<< "s", "p", "e", "c", "i", "a", "l" >> :> special)
    @@ (<< "s", "p", "a", "c", "e" >> :> <<" ">>)

\* max(a, b)
Max(a, b) == IF a >= b THEN a ELSE b

\* the normalisation without strip()
NormalizeHash_NoStrip(hv) == Lower(hv)

\* self.hash_value = hash_value.strip().lower()
NormalizeHash(hv) == Lower(Strip(hv))

\* charset resolution of BruteforceEngine.__init__
ResolveCharset(cs) == IF cs \in DOMAIN CHARSETS THEN CHARSETS[cs] ELSE cs

\* generator position before the first next()
GenStart == [started |-> FALSE, length |-> 0, idx |-> <<>>, w |-> 0, r |-> 0, i |-> 0]

BfPools(length) == [i \in 1..length |-> charset]

\* the for-length loop of _generate_candidates entering length L
RECURSIVE BfEnter(_, _)
BfEnter(g, L) ==
    IF L > max_length THEN [status |-> "stop", item |-> None, gen |-> g]
    ELSE IF ProductEmpty(BfPools(L)) THEN BfEnter(g, L + 1)
    ELSE [status |-> "item",
          item |-> Combo(ProductFirst(BfPools(L)), BfPools(L)),
          gen |-> [g EXCEPT !.started = TRUE, !.length = L, !.idx = ProductFirst(BfPools(L))]]

\* next() on BruteforceEngine._generate_candidates
BruteforceNext(g) ==
    IF ~g.started THEN BfEnter(g, min_length)
    ELSE IF ProductHasNext(g.idx, BfPools(g.length))
    THEN [status |-> "item",
          item |-> Combo(ProductNext(g.idx, BfPools(g.length)), BfPools(g.length)),
          gen |-> [g EXCEPT !.idx = ProductNext(g.idx, BfPools(g.length))]]
    ELSE BfEnter(g, g.length + 1)

RECURSIVE Pow(_, _)
Pow(b, e) == IF e = 0 THEN 1 ELSE b * Pow(b, e - 1)

RECURSIVE SumPow(_, _, _)
SumPow(size, lo, hi) == IF lo > hi THEN 0 ELSE Pow(size, lo) + SumPow(size, lo + 1, hi)

\* the estimate over the distinct characters of the charset
BruteforceEstimate_Distinct == SumPow(Cardinality(Range(charset)), min_length, max_length)

\* BruteforceEngine.estimate_total_attempts
BruteforceEstimate == SumPow(Len(charset), min_length, max_length)

(***************************************************************************)
(* mask_engine.py                                                          *)
(***************************************************************************)
MASK_CHARS_0 ==
    (<<"?", "l">> :> lowercase)
    @@ (<<"?", "u">> :> uppercase)
    @@ (<<"?", "d">> :> digits)
    @@ (<<"?", "s">> :> special)
    @@ (<<"?", "a">> :> None)
    @@ (<<"?", "h">> :> hexlower)
    @@ (<<"?", "H">> :> hexupper)

\* an assignment that extends the ?a entry the class already holds
ComputeAll_Accumulates(table) ==
    [table EXCEPT ![<<"?", "a">>] = (IF table[<<"?", "a">>] = None THEN <<>> ELSE table[<<"?", "a">>])
                                    \o table[<<"?", "l">>] \o table[<<"?", "u">>] \o table[<<"?", "d">>] \o table[<<"?", "s">>]]

\* the assignment to self.MASK_CHARS['?a'] in MaskEngine.__init__
ComputeAll(table) ==
    [table EXCEPT ![<<"?", "a">>] = table[<<"?", "l">>] \o table[<<"?", "u">>] \o table[<<"?", "d">>] \o table[<<"?", "s">>]]

\* a parser that takes an unknown ?x as one literal ? and skips the x
RECURSIVE ParseFrom_SkipsUnknown(_, _, _, _)
ParseFrom_SkipsUnknown(m, i, table, positions) ==
    IF i > Len(m) THEN positions
    ELSE IF i < Len(m) /\ SubSeq(m, i, i + 1) \in DOMAIN table
    THEN ParseFrom_SkipsUnknown(m, i + 2, table, Append(positions, table[SubSeq(m, i, i + 1)]))
    ELSE IF m[i] = "?"
    THEN ParseFrom_SkipsUnknown(m, i + 2, table, Append(positions, <<m[i]>>))
    ELSE ParseFrom_SkipsUnknown(m, i + 1, table, Append(positions, <<m[i]>>))

RECURSIVE ParseFrom(_, _, _, _)
ParseFrom(m, i, table, positions) ==
    IF i > Len(m) THEN positions
    ELSE IF i < Len(m) /\ SubSeq(m, i, i + 1) \in DOMAIN table
    THEN ParseFrom(m, i + 2, table, Append(positions, table[SubSeq(m, i, i + 1)]))
    ELSE ParseFrom(m, i + 1, table, Append(positions, <<m[i]>>))

\* MaskEngine._parse_mask
parse_mask(m, table) == ParseFrom(m, 1, table, <<>>)

\* isinstance(pos, str) and len(pos) == 1
IsLiteral(pos) == Len(pos) = 1

\* the charsets list with every set taken back to front
MaskPools_Reversed(positions) ==
    [i \in 1..Len(positions) |->
        IF IsLiteral(positions[i]) THEN <<positions[i][1]>>
        ELSE [k \in 1..Len(positions[i]) |-> positions[i][Len(positions[i]) + 1 - k]]]

\* the charsets list of MaskEngine._generate_candidates
MaskPools(positions) == [i \in 1..Len(positions) |-> IF IsLiteral(positions[i]) THEN <<positions[i][1]>> ELSE positions[i]]

\* next() on MaskEngine._generate_candidates
MaskNext(g) ==
    LET pools == MaskPools(mask_positions) IN
    IF ~g.started
    THEN IF ProductEmpty(pools) THEN [status |-> "stop", item |-> None, gen |-> g]
         ELSE [status |-> "item", item |-> Combo(ProductFirst(pools), pools),
               gen |-> [g EXCEPT !.started = TRUE, !.idx = ProductFirst(pools)]]
    ELSE IF ProductHasNext(g.idx, pools)
    THEN [status |-> "item", item |-> Combo(ProductNext(g.idx, pools), pools),
          gen |-> [g EXCEPT !.idx = ProductNext(g.idx, pools)]]
    ELSE [status |-> "stop", item |-> None, gen |-> g]

\* the estimate that adds the sizes of the positions
RECURSIVE MaskEstimate_Sum(_, _)
MaskEstimate_Sum(positions, i) ==
    IF i > Len(positions) THEN 1
    ELSE (IF IsLiteral(positions[i]) THEN 1 ELSE Len(positions[i])) + MaskEstimate_Sum(positions, i + 1) - 1

RECURSIVE MaskEstimateFrom(_, _)
MaskEstimateFrom(positions, i) ==
    IF i > Len(positions) THEN 1
    ELSE (IF IsLiteral(positions[i]) THEN 1 ELSE Len(positions[i])) * MaskEstimateFrom(positions, i + 1)

\* MaskEngine.estimate_total_attempts
MaskEstimate == MaskEstimateFrom(mask_positions, 1)

\* list(mask_engine._generate_candidates()) of HybridEngine.attack; the list of
\* itertools.product built pool by pool:
\* result = [x + [y] for x in result for y in pool]
RECURSIVE ListProduct(_, _, _)
ListProduct(pools, i, acc) ==
    IF i > Len(pools) THEN acc
    ELSE ListProduct(pools, i + 1,
             [k \in 1..(Len(acc) * Len(pools[i])) |->
                 Append(acc[((k - 1) \div Len(pools[i])) + 1], pools[i][((k - 1) % Len(pools[i])) + 1])])

MaskVariants(positions) == ListProduct(MaskPools(positions), 1, << <<>> >>)

(***************************************************************************)
(* dictionary_engine.py, hybrid_engine.py: the candidate loops.            *)
(***************************************************************************)
\* the word read from line k of the wordlist
WordAt(filename, k) == Strip(FileLines(filename)[k])

\* next() of the for-word loop of DictionaryEngine.attack
DictionaryNext(g) ==
    LET nx == load_wordlist_next(wordlist_file, g.w) IN
    [status |-> nx.status, item |-> nx.word, gen |-> [g EXCEPT !.started = TRUE, !.w = nx.line]]

\* the candidate built with suffix and prefix exchanged
BuildCandidate_Swapped(word, variant, pos) == IF pos = "suffix" THEN variant \o word ELSE word \o variant

\* candidate = word + variant if position == "suffix" else variant + word
BuildCandidate(word, variant, pos) == IF pos = "suffix" THEN word \o variant ELSE variant \o word

\* the for-word loop of HybridEngine.attack taking the word after line n
RECURSIVE HybridEnter(_, _)
HybridEnter(g, n) ==
    LET nx == load_wordlist_next(wordlist_file, n) IN
    IF nx.status # "item" THEN [status |-> nx.status, item |-> None, gen |-> g]
    ELSE IF mask_variants = <<>> THEN HybridEnter(g, nx.line)
    ELSE [status |-> "item",
          item |-> BuildCandidate(nx.word, mask_variants[1], position),
          gen |-> [g EXCEPT !.started = TRUE, !.w = nx.line, !.i = 1]]

\* the next (word, variant) pair of HybridEngine.attack
HybridNext(g) ==
    IF g.started /\ g.i < Len(mask_variants)
    THEN [status |-> "item",
          item |-> BuildCandidate(WordAt(wordlist_file, g.w), mask_variants[g.i + 1], position),
          gen |-> [g EXCEPT !.i = g.i + 1]]
    ELSE HybridEnter(g, g.w)

(***************************************************************************)
(* rule_engine.py                                                          *)
(***************************************************************************)
DefaultRules == <<"original", "capitalize", "uppercase", "lowercase", "append_digits", "prepend_digits", "leetspeak_simple">>

\* f"{i:02d}"
TwoDigits(i) == <<digits[((i \div 10) % 10) + 1], digits[(i % 10) + 1]>>

\* f"{year}"
FourDigits(n) == <<digits[((n \div 1000) % 10) + 1], digits[((n \div 100) % 10) + 1]>> \o TwoDigits(n % 100)

\* str.replace(old, new) for one-character strings
Replace(s, old, new) == [k \in 1..Len(s) |-> IF s[k] = old THEN new ELSE s[k]]

\* str.capitalize()
Capitalize(s) == [k \in 1..Len(s) |-> IF k = 1 THEN UpperChar(s[k]) ELSE LowerChar(s[k])]

\* word[::-1]
Reverse(s) == [k \in 1..Len(s) |-> s[Len(s) + 1 - k]]

\* ch.lower() if ch.isupper() else ch.upper()
Toggle(ch) == IF ch \in DOMAIN LowerMap THEN LowerChar(ch) ELSE UpperChar(ch)

\* the replacements applied to the word as written, without lower()
Leetspeak_NoLower(word) ==
    Replace(Replace(Replace(Replace(Replace(word, "a", "@"), "e", "3"), "i", "1"), "o", "0"), "s", "$")

\* variant = word.lower() followed by the five replace() calls
Leetspeak(word) ==
    Replace(Replace(Replace(Replace(Replace(Lower(word), "a", "@"), "e", "3"), "i", "1"), "o", "0"), "s", "$")

AppendSpecial == <<"!", "@", "#", "$", "%">>

\* number of candidates one rule of _apply_rules yields for a word
RuleCount(word, rule) ==
    CASE rule \in {"original", "capitalize", "uppercase", "lowercase", "reverse", "leetspeak_simple", "duplicate"} -> 1
      [] rule \in {"append_digits", "prepend_digits"} -> 100
      [] rule = "append_year" -> 2026 - 1990
      [] rule = "append_special" -> Len(AppendSpecial)
      [] rule \in {"toggle_first", "toggle_last"} -> IF word # <<>> THEN 1 ELSE 0
      [] OTHER -> 0

\* the rules with the two-digit numbers running from 99 down to 00
RuleAt_Descending(word, rule, k) ==
    CASE rule = "original" -> word
      [] rule = "capitalize" -> Capitalize(word)
      [] rule = "uppercase" -> Upper(word)
      [] rule = "lowercase" -> Lower(word)
      [] rule = "reverse" -> Reverse(word)
      [] rule = "append_digits" -> word \o TwoDigits(100 - k)
      [] rule = "prepend_digits" -> TwoDigits(100 - k) \o word
      [] rule = "append_year" -> word \o FourDigits(1990 + k - 1)
      [] rule = "append_special" -> Append(word, AppendSpecial[k])
      [] rule = "leetspeak_simple" -> Leetspeak(word)
      [] rule = "duplicate" -> word \o word
      [] rule = "toggle_first" -> <<Toggle(word[1])>> \o Tail(word)
      [] rule = "toggle_last" -> Append(SubSeq(word, 1, Len(word) - 1), Toggle(word[Len(word)]))

\* the k-th candidate (k = 1, 2, ...) one rule of _apply_rules yields for a word
RuleAt(word, rule, k) ==
    CASE rule = "original" -> word
      [] rule = "capitalize" -> Capitalize(word)
      [] rule = "uppercase" -> Upper(word)
      [] rule = "lowercase" -> Lower(word)
      [] rule = "reverse" -> Reverse(word)
      [] rule = "append_digits" -> word \o TwoDigits(k - 1)
      [] rule = "prepend_digits" -> TwoDigits(k - 1) \o word
      [] rule = "append_year" -> word \o FourDigits(1990 + k - 1)
      [] rule = "append_special" -> Append(word, AppendSpecial[k])
      [] rule = "leetspeak_simple" -> Leetspeak(word)
      [] rule = "duplicate" -> word \o word
      [] rule = "toggle_first" -> <<Toggle(word[1])>> \o Tail(word)
      [] rule = "toggle_last" -> Append(SubSeq(word, 1, Len(word) - 1), Toggle(word[Len(word)]))

\* rules after position r that yield something for the word
RulesAfter(word, r) == {q \in (r + 1)..Len(rules) : RuleCount(word, rules[q]) > 0}

\* the for-word loop of RuleEngine.attack taking the word after line n
RECURSIVE RuleEnter(_, _)
RuleEnter(g, n) ==
    LET nx == load_wordlist_next(wordlist_file, n) IN
    IF nx.status # "item" THEN [status |-> nx.status, item |-> None, gen |-> g]
    ELSE IF RulesAfter(nx.word, 0) = {} THEN RuleEnter(g, nx.line)
    ELSE LET q == CHOOSE q \in RulesAfter(nx.word, 0) : \A j \in RulesAfter(nx.word, 0) : q <= j
         IN [status |-> "item", item |-> RuleAt(nx.word, rules[q], 1),
             gen |-> [g EXCEPT !.started = TRUE, !.w = nx.line, !.r = q, !.i = 1]]

\* the next variant of the _apply_rules loop of RuleEngine.attack
RuleNext(g) ==
    IF ~g.started THEN RuleEnter(g, g.w)
    ELSE LET word == WordAt(wordlist_file, g.w) IN
         IF g.i < RuleCount(word, rules[g.r])
         THEN [status |-> "item", item |-> RuleAt(word, rules[g.r], g.i + 1), gen |-> [g EXCEPT !.i = g.i + 1]]
         ELSE IF RulesAfter(word, g.r) # {}
         THEN LET q == CHOOSE q \in RulesAfter(word, g.r) : \A j \in RulesAfter(word, g.r) : q <= j
              IN [status |-> "item", item |-> RuleAt(word, rules[q], 1), gen |-> [g EXCEPT !.r = q, !.i = 1]]
         ELSE RuleEnter(g, g.w)

(***************************************************************************)
(* mask_engine.py: MaskEngine.build_mask; hashcat_wrapper.py:              *)
(* HashcatWrapper.calculate_mask_keyspace.                                 *)
(***************************************************************************)
\* the index at which the inner while loop over pattern[i].isdigit() stops
RECURSIVE DigitsEnd(_, _)
DigitsEnd(pat, i) == IF i <= Len(pat) /\ pat[i] \in DigitSet THEN DigitsEnd(pat, i + 1) ELSE i

\* int(num_str)
RECURSIVE IntFrom(_, _)
IntFrom(s, acc) == IF s = <<>> THEN acc ELSE IntFrom(Tail(s), acc * 10 + (IndexOf(Head(s), digits) - 1))

\* the type_map of build_mask
type_map ==
    ("l" :> <<"?", "l">>) @@ ("u" :> <<"?", "u">>) @@ ("d" :> <<"?", "d">>) @@ ("s" :> <<"?", "s">>)
    @@ ("a" :> <<"?", "a">>) @@ ("h" :> <<"?", "h">>) @@ ("H" :> <<"?", "H">>)

\* type_map.get(char_type, char_type)
TypeOf(char_type) == IF char_type \in DOMAIN type_map THEN type_map[char_type] ELSE <<char_type>>

\* s * count
Repeat(s, count) == [k \in 1..(count * Len(s)) |-> s[((k - 1) % Len(s)) + 1]]

\* the outer loop with every token written once, whatever its count
RECURSIVE BuildFrom_IgnoresCount(_, _, _)
BuildFrom_IgnoresCount(pat, i, m) ==
    IF i > Len(pat) THEN m
    ELSE LET j == DigitsEnd(pat, i)
         IN IF j <= Len(pat)
            THEN BuildFrom_IgnoresCount(pat, j + 1, m \o TypeOf(pat[j]))
            ELSE m

\* the outer while loop of build_mask from index i with the mask built so far
RECURSIVE BuildFrom(_, _, _)
BuildFrom(pat, i, m) ==
    IF i > Len(pat) THEN m
    ELSE LET j == DigitsEnd(pat, i)
             num_str == SubSeq(pat, i, j - 1)
             count == IF num_str # <<>> THEN IntFrom(num_str, 0) ELSE 1
         IN IF j <= Len(pat)
            THEN BuildFrom(pat, j + 1, m \o Repeat(TypeOf(pat[j]), count))
            ELSE m

\* MaskEngine.build_mask
build_mask(pat) == BuildFrom(pat, 1, <<>>)

\* the charsets table of calculate_mask_keyspace
HashcatCharsets ==
    (<<"?", "l">> :> 26) @@ (<<"?", "u">> :> 26) @@ (<<"?", "d">> :> 10)
    @@ (<<"?", "s">> :> 33) @@ (<<"?", "a">> :> 95) @@ (<<"?", "b">> :> 256)

\* the while loop of calculate_mask_keyspace
RECURSIVE KeyspaceFrom(_, _, _)
KeyspaceFrom(m, i, ks) ==
    IF i > Len(m) THEN ks
    ELSE IF m[i] = "?" /\ i + 1 <= Len(m) /\ SubSeq(m, i, i + 1) \in DOMAIN HashcatCharsets
    THEN KeyspaceFrom(m, i + 2, ks * HashcatCharsets[SubSeq(m, i, i + 1)])
    ELSE KeyspaceFrom(m, i + 1, ks * 1)

\* HashcatWrapper.calculate_mask_keyspace
calculate_mask_keyspace(m) == KeyspaceFrom(m, 1, 1)

(***************************************************************************)
(* Inputs: environments, target digests and engine arguments.              *)
(***************************************************************************)
Environments ==
    { [bcrypt |-> TRUE, argon2 |-> TRUE, fault |-> {}],
      [bcrypt |-> FALSE, argon2 |-> TRUE, fault |-> {}],
      [bcrypt |-> TRUE, argon2 |-> FALSE, fault |-> {}],
      [bcrypt |-> TRUE, argon2 |-> TRUE, fault |-> {NTLM}],
      [bcrypt |-> TRUE, argon2 |-> TRUE, fault |-> {ARGON2}],
      [bcrypt |-> TRUE, argon2 |-> TRUE, fault |-> {PBKDF2_SHA256}] }

\* an environment that lacks a library is explored with the algorithm of that library
AlgorithmChoices ==
    IF BCRYPT_AVAILABLE /\ ARGON2_AVAILABLE /\ backend_fault = {} THEN HashAlgorithm
    ELSE (IF BCRYPT_AVAILABLE THEN {} ELSE {BCRYPT}) \cup (IF ARGON2_AVAILABLE THEN {} ELSE {ARGON2}) \cup backend_fault

\* salts drawn by gensalt() / os.urandom()
Salts == {<<"a", "b">>, <<"B", "c">>}

\* the salt of the digest the caller holds for a password
TargetSalt(secret) == IF Len(secret) = 1 THEN <<"a", "b">> ELSE <<"B", "c">>

Pad(d) == <<" ">> \o d \o <<"\n">>

Junk == <<"z", "z">>

\* the ways a caller writes the digest d
Forms(d, alg) == IF alg \in VerifyStyle THEN {d, Pad(d), Upper(d)} ELSE {d, Pad(Upper(d))}

\* the hash_value arguments: digests of the secrets and a digest of nothing generated
SuppliedHashes(alg, secrets) ==
    {Junk} \cup UNION {Forms(generate_hash(s, alg, TargetSalt(s)), alg) : s \in secrets}

BruteforceSecrets == {<<"b">>, <<"a", "b">>}
MaskSecrets == {<<"A", "7", "B">>, <<"?", "2">>}
DictionarySecrets == {<<"b">>, <<"A", "7">>}
HybridSecrets == {<<"b", "1">>, <<"9", "a", "b">>}
RuleSecrets == {<<"A", "b">>, <<"b", "0", "1">>}

\* charset arguments: custom strings (one with a repeated character, one with a
\* character that cannot be encoded, the empty one) and a set name
CharsetChoices ==
    { <<"a", "b">>, <<"a", "a">>, <<>>, <<"a", SUR, "b">>, <<"s", "p", "a", "c", "e">> }

ShortMasks ==
    { <<"A", "?", "d", "B">>, <<"?", "x">>, <<"?", "?", "d">>, <<>>, <<"?", "H">>, <<"a", "?">> }

\* masks run against one target only
LongMasks == { <<"?", "l", "?", "l", "?", "d">>, <<"?", "a">> }

HybridMasks == { <<"?", "d">>, <<"x">> }

\* hybrid masks run against one target only
LongHybridMasks == { <<"?", "d", "?", "d">> }

RuleChoices ==
    { None, <<"toggle_first", "bogus", "reverse", "append_special">>, <<"duplicate", "toggle_last", "append_year">>, <<>> }

\* max_attempts: None is <<>>, an int n is <<n>>
CapChoices == {<<>>} \cup {<<n>> : n \in 0..MaxCap}

\* progress cadence of BruteforceEngine.attack and MaskEngine.attack
CombinatorialCadence == 1000
\* progress cadence of DictionaryEngine.attack, HybridEngine.attack and RuleEngine.attack
WordCadence == 100

(***************************************************************************)
(* Initial state: the modules are imported, no engine is constructed.      *)
(***************************************************************************)
\* an engine instance that is not constructed yet
FreshInstance ==
    [engine |-> "none", supplied_hash |-> <<>>, hash_value |-> <<>>, algorithm |-> MD5, charset |-> <<>>,
     min_length |-> 0, max_length |-> 0, supplied_length |-> <<0, 0>>, mask |-> <<>>, mask_positions |-> <<>>,
     attempts |-> 0, found |-> FALSE, found_password |-> None,
     wordlist_file |-> "missing.txt", position |-> "suffix", rules |-> <<>>, max_attempts |-> <<>>,
     progress_callback |-> FALSE, mask_variants |-> <<>>, candidate |-> None, gen |-> GenStart, pc |-> "new",
     outcome |-> "none", result |-> None, pulled |-> 0, tested |-> 0, progress |-> 0, is_match |-> FALSE]

Init ==
    /\ \E env \in Environments :
          /\ BCRYPT_AVAILABLE = env.bcrypt
          /\ ARGON2_AVAILABLE = env.argon2
          /\ backend_fault = env.fault
    /\ MASK_CHARS = MASK_CHARS_0
    /\ engine = "none"
    /\ supplied_hash = <<>>
    /\ hash_value = <<>>
    /\ algorithm = MD5
    /\ charset = <<>>
    /\ min_length = 0
    /\ max_length = 0
    /\ supplied_length = <<0, 0>>
    /\ mask = <<>>
    /\ mask_positions = <<>>
    /\ attempts = 0
    /\ found = FALSE
    /\ found_password = None
    /\ wordlist_file = "missing.txt"
    /\ position = "suffix"
    /\ rules = <<>>
    /\ max_attempts = <<>>
    /\ progress_callback = FALSE
    /\ mask_variants = <<>>
    /\ candidate = None
    /\ gen = GenStart
    /\ pc = "new"
    /\ outcome = "none"
    /\ result = None
    /\ pulled = 0
    /\ tested = 0
    /\ progress = 0
    /\ previous = <<>>
    /\ cancel_at = <<>>
    /\ is_match = FALSE
    /\ pattern = <<>>
    /\ built = <<>>
    /\ keyspace = <<>>
    /\ other = FreshInstance

(***************************************************************************)
(* __init__ of the five engines.                                           *)
(***************************************************************************)
\* the assignments common to the five constructors
InitCommon(cls, hv, alg) ==
    /\ pc = "new"
    /\ engine' = cls
    /\ supplied_hash' = hv
    /\ hash_value' = NormalizeHash(hv)
    /\ algorithm' = alg
    /\ attempts' = 0
    /\ found' = FALSE
    /\ found_password' = None
    /\ pc' = "idle"
    /\ UNCHANGED <<envVars, argVars, runVars, hostVars, extVars>>

\* the constructor storing the length arguments as they are given
BruteforceInit_NoClamp ==
    /\ pc = "new"
    /\ \E alg \in AlgorithmChoices, cs \in CharsetChoices, lo \in 0..MaxLength, hi \in 0..MaxLength :
           \E hv \in SuppliedHashes(alg, BruteforceSecrets) :
               /\ InitCommon("bruteforce", hv, alg)
               /\ min_length' = lo
               /\ max_length' = hi
               /\ supplied_length' = <<lo, hi>>
               /\ charset' = ResolveCharset(cs)
               /\ UNCHANGED <<MASK_CHARS, mask, mask_positions>>

BruteforceInit ==
    /\ pc = "new"
    /\ \E alg \in AlgorithmChoices, cs \in CharsetChoices, lo \in 0..MaxLength, hi \in 0..MaxLength :
           \E hv \in SuppliedHashes(alg, BruteforceSecrets) :
               /\ InitCommon("bruteforce", hv, alg)
               /\ min_length' = Max(1, lo)
               /\ max_length' = Max(Max(1, lo), hi)
               /\ supplied_length' = <<lo, hi>>
               /\ charset' = ResolveCharset(cs)
               /\ UNCHANGED <<MASK_CHARS, mask, mask_positions>>

\* MaskEngine.__init__ with given arguments
MaskConstruct(hv, alg, m) ==
    /\ InitCommon("mask", hv, alg)
    /\ mask' = m
    /\ MASK_CHARS' = ComputeAll(MASK_CHARS)
    /\ mask_positions' = parse_mask(m, ComputeAll(MASK_CHARS))
    /\ UNCHANGED <<charset, min_length, max_length, supplied_length>>

MaskInit ==
    /\ pc = "new"
    /\ \E alg \in AlgorithmChoices, m \in ShortMasks \cup LongMasks :
           \E hv \in SuppliedHashes(alg, MaskSecrets) :
               /\ m \in LongMasks => alg = SHA256 /\ hv = Junk
               /\ MaskConstruct(hv, alg, m)

DictionaryInit ==
    /\ pc = "new"
    /\ \E alg \in AlgorithmChoices :
           \E hv \in SuppliedHashes(alg, DictionarySecrets) :
               /\ InitCommon("dictionary", hv, alg)
               /\ UNCHANGED <<MASK_CHARS, charset, min_length, max_length, supplied_length, mask, mask_positions>>

HybridInit ==
    /\ pc = "new"
    /\ \E alg \in AlgorithmChoices :
           \E hv \in SuppliedHashes(alg, HybridSecrets) :
               /\ InitCommon("hybrid", hv, alg)
               /\ UNCHANGED <<MASK_CHARS, charset, min_length, max_length, supplied_length, mask, mask_positions>>

RuleInit ==
    /\ pc = "new"
    /\ \E alg \in AlgorithmChoices :
           \E hv \in SuppliedHashes(alg, RuleSecrets) :
               /\ InitCommon("rule", hv, alg)
               /\ UNCHANGED <<MASK_CHARS, charset, min_length, max_length, supplied_length, mask, mask_positions>>

(***************************************************************************)
(* attack() of the five engines: entry, loop head and loop body.           *)
(***************************************************************************)
\* attack() that resets the counter but not found / found_password
AttackEntry_KeepsFound ==
    /\ pc \in {"idle", "done"}
    /\ attempts' = 0
    /\ UNCHANGED <<found, found_password>>
    /\ gen' = GenStart
    /\ candidate' = None
    /\ outcome' = "running"
    /\ result' = None
    /\ pulled' = 0
    /\ tested' = 0
    /\ progress' = 0
    /\ pc' = "loop"
    /\ UNCHANGED <<envVars, engine, supplied_hash, hash_value, algorithm, charset, min_length, max_length, supplied_length>>

\* attack() that resumes the candidate generator of the preceding call
AttackEntry_KeepsGen ==
    /\ pc \in {"idle", "done"}
    /\ attempts' = 0
    /\ found' = FALSE
    /\ found_password' = None
    /\ gen' = gen
    /\ candidate' = None
    /\ outcome' = "running"
    /\ result' = None
    /\ pulled' = 0
    /\ tested' = 0
    /\ progress' = 0
    /\ pc' = "loop"
    /\ UNCHANGED <<envVars, engine, supplied_hash, hash_value, algorithm, charset, min_length, max_length, supplied_length>>

\* the resets at the top of attack()
AttackEntry ==
    /\ pc \in {"idle", "done"}
    /\ attempts' = 0
    /\ found' = FALSE
    /\ found_password' = None
    /\ gen' = GenStart
    /\ candidate' = None
    /\ outcome' = "running"
    /\ result' = None
    /\ pulled' = 0
    /\ tested' = 0
    /\ progress' = 0
    /\ pc' = "loop"
    /\ UNCHANGED <<envVars, engine, supplied_hash, hash_value, algorithm, charset, min_length, max_length, supplied_length>>

\* the cap test with > in place of >=
CapReached_Late(att, cap) == cap # <<>> /\ cap[1] # 0 /\ att > cap[1]

\* max_attempts and self.attempts >= max_attempts
CapReached(att, cap) == cap # <<>> /\ cap[1] # 0 /\ att >= cap[1]

\* progress_callback and self.attempts % cadence == 0
CallbackDue(att, cadence) == progress_callback /\ att % cadence = 0

\* a loop head in which a candidate reported to the callback is not tested
LoopHead_CallbackSkips(nx, cadence, capped) ==
    /\ pc = "loop"
    /\ IF nx.status = "item"
       THEN /\ gen' = nx.gen
            /\ candidate' = nx.item
            /\ attempts' = attempts + 1
            /\ pulled' = pulled + 1
            /\ progress' = IF CallbackDue(attempts + 1, cadence) THEN progress + 1 ELSE progress
            /\ IF capped /\ CapReached(attempts + 1, max_attempts)
               THEN pc' = "done" /\ outcome' = "capped"
               ELSE pc' = (IF CallbackDue(attempts + 1, cadence) THEN "loop" ELSE "try") /\ outcome' = outcome
       ELSE /\ pc' = "done"
            /\ outcome' = IF nx.status = "stop" THEN "exhausted" ELSE "errored"
            /\ UNCHANGED <<gen, candidate, attempts, pulled, progress>>
    /\ UNCHANGED <<envVars, MASK_CHARS, cfgVars, mask, found, found_password, argVars, mask_variants, result, tested, hostVars, extVars>>

\* a loop head that fetches the next candidate while the current one is still to be tested
LoopHead_Pipelined(nx, cadence, capped) ==
    /\ pc \in {"loop", "try"}
    /\ IF nx.status = "item"
       THEN /\ gen' = nx.gen
            /\ candidate' = nx.item
            /\ attempts' = attempts + 1
            /\ pulled' = pulled + 1
            /\ progress' = IF CallbackDue(attempts + 1, cadence) THEN progress + 1 ELSE progress
            /\ IF capped /\ CapReached(attempts + 1, max_attempts)
               THEN pc' = "done" /\ outcome' = "capped"
               ELSE pc' = "try" /\ outcome' = outcome
       ELSE /\ pc' = "done"
            /\ outcome' = IF nx.status = "stop" THEN "exhausted" ELSE "errored"
            /\ UNCHANGED <<gen, candidate, attempts, pulled, progress>>
    /\ UNCHANGED <<envVars, MASK_CHARS, cfgVars, mask, found, found_password, argVars, mask_variants, result, tested, hostVars, extVars>>

\* one pass through the head of the for loop: next() on the generator, the
\* count, the progress callback and the cap test
LoopHead(nx, cadence, capped) ==
    /\ pc = "loop"
    /\ IF nx.status = "item"
       THEN /\ gen' = nx.gen
            /\ candidate' = nx.item
            /\ attempts' = attempts + 1
            /\ pulled' = pulled + 1
            /\ progress' = IF CallbackDue(attempts + 1, cadence) THEN progress + 1 ELSE progress
            /\ IF capped /\ CapReached(attempts + 1, max_attempts)
               THEN pc' = "done" /\ outcome' = "capped"
               ELSE pc' = "try" /\ outcome' = outcome
       ELSE /\ pc' = "done"
            /\ outcome' = IF nx.status = "stop" THEN "exhausted" ELSE "errored"
            /\ UNCHANGED <<gen, candidate, attempts, pulled, progress>>
    /\ UNCHANGED <<envVars, MASK_CHARS, cfgVars, mask, found, found_password, argVars, mask_variants, result, tested, hostVars, extVars>>

\* the loop body without the return on a match
LoopBody_NoReturn ==
    /\ pc = "try"
    /\ \E salt \in Salts :
          IF try_password(candidate, salt)
          THEN /\ found' = TRUE
               /\ found_password' = candidate
               /\ UNCHANGED <<result, outcome>>
          ELSE UNCHANGED <<found, found_password, result, outcome>>
    /\ pc' = "loop"
    /\ tested' = tested + 1
    /\ UNCHANGED <<envVars, MASK_CHARS, cfgVars, mask, attempts, argVars, mask_variants, candidate, gen, pulled, progress, hostVars, extVars>>

\* the loop body with an exception of generate_hash reaching attack()
LoopBody_Propagates ==
    /\ pc = "try"
    /\ \E salt \in Salts :
          IF generate_hash_raises(candidate, algorithm)
          THEN /\ pc' = "done"
               /\ outcome' = "errored"
               /\ UNCHANGED <<found, found_password, result>>
          ELSE IF try_password(candidate, salt)
          THEN /\ found' = TRUE
               /\ found_password' = candidate
               /\ result' = candidate
               /\ outcome' = "found"
               /\ pc' = "done"
          ELSE /\ pc' = "loop"
               /\ UNCHANGED <<found, found_password, result, outcome>>
    /\ tested' = tested + 1
    /\ UNCHANGED <<envVars, MASK_CHARS, cfgVars, mask, attempts, argVars, mask_variants, candidate, gen, pulled, progress, hostVars, extVars>>

\* the test of the candidate and the return on a match
LoopBody ==
    /\ pc = "try"
    /\ \E salt \in Salts :
          IF try_password(candidate, salt)
          THEN /\ found' = TRUE
               /\ found_password' = candidate
               /\ result' = candidate
               /\ outcome' = "found"
               /\ pc' = "done"
          ELSE /\ pc' = "loop"
               /\ UNCHANGED <<found, found_password, result, outcome>>
    /\ tested' = tested + 1
    /\ UNCHANGED <<envVars, MASK_CHARS, cfgVars, mask, attempts, argVars, mask_variants, candidate, gen, pulled, progress, hostVars, extVars>>

\* a call of attack() the host does not relate to an earlier one
FirstCall == previous' = <<>> /\ cancel_at' = <<>> /\ UNCHANGED extVars

BruteforceAttack ==
    /\ engine = "bruteforce"
    /\ AttackEntry
    /\ \E cb \in BOOLEAN, cap \in CapChoices : progress_callback' = cb /\ max_attempts' = cap
    /\ UNCHANGED <<MASK_CHARS, mask, mask_positions, wordlist_file, position, rules, mask_variants>>
    /\ FirstCall

BruteforceLoop == engine = "bruteforce" /\ LoopHead(BruteforceNext(gen), CombinatorialCadence, TRUE)

BruteforceTry == engine = "bruteforce" /\ LoopBody

MaskAttack ==
    /\ engine = "mask"
    /\ AttackEntry
    /\ \E cb \in BOOLEAN, cap \in CapChoices : progress_callback' = cb /\ max_attempts' = cap
    /\ UNCHANGED <<MASK_CHARS, mask, mask_positions, wordlist_file, position, rules, mask_variants>>
    /\ FirstCall

MaskLoop == engine = "mask" /\ LoopHead(MaskNext(gen), CombinatorialCadence, TRUE)

MaskTry == engine = "mask" /\ LoopBody

DictionaryAttack ==
    /\ engine = "dictionary"
    /\ AttackEntry
    /\ \E cb \in BOOLEAN, f \in WordlistFiles : progress_callback' = cb /\ wordlist_file' = f
    /\ UNCHANGED <<MASK_CHARS, mask, mask_positions, position, rules, max_attempts, mask_variants>>
    /\ FirstCall

DictionaryLoop == engine = "dictionary" /\ LoopHead(DictionaryNext(gen), WordCadence, FALSE)

DictionaryTry == engine = "dictionary" /\ LoopBody

HybridAttack ==
    /\ engine = "hybrid"
    /\ AttackEntry
    /\ \E cb \in BOOLEAN, f \in WordlistFiles, m \in HybridMasks \cup LongHybridMasks, pos \in {"suffix", "prefix"} :
          /\ m \in LongHybridMasks => algorithm = SHA256 /\ hash_value = Junk
          /\ progress_callback' = cb
          /\ wordlist_file' = f
          /\ position' = pos
          /\ mask' = m
          /\ MASK_CHARS' = ComputeAll(MASK_CHARS)
          /\ mask_positions' = parse_mask(m, ComputeAll(MASK_CHARS))
          /\ mask_variants' = MaskVariants(parse_mask(m, ComputeAll(MASK_CHARS)))
    /\ UNCHANGED <<rules, max_attempts>>
    /\ FirstCall

HybridLoop == engine = "hybrid" /\ LoopHead(HybridNext(gen), WordCadence, FALSE)

HybridTry == engine = "hybrid" /\ LoopBody

RuleAttack ==
    /\ engine = "rule"
    /\ AttackEntry
    /\ \E cb \in BOOLEAN, f \in WordlistFiles, rs \in RuleChoices :
          /\ progress_callback' = cb
          /\ wordlist_file' = f
          /\ rules' = IF rs = None THEN DefaultRules ELSE rs
    /\ UNCHANGED <<MASK_CHARS, mask, mask_positions, position, max_attempts, mask_variants>>
    /\ FirstCall

RuleLoop == engine = "rule" /\ LoopHead(RuleNext(gen), WordCadence, FALSE)

RuleTry == engine = "rule" /\ LoopBody

Next ==
    \/ BruteforceInit \/ MaskInit \/ DictionaryInit \/ HybridInit \/ RuleInit
    \/ BruteforceAttack \/ BruteforceLoop \/ BruteforceTry
    \/ MaskAttack \/ MaskLoop \/ MaskTry
    \/ DictionaryAttack \/ DictionaryLoop \/ DictionaryTry
    \/ HybridAttack \/ HybridLoop \/ HybridTry
    \/ RuleAttack \/ RuleLoop \/ RuleTry

Spec == Init /\ [][Next]_vars

(***************************************************************************)
(* The caller invokes attack() once more with the arguments of the call    *)
(* that has returned, and keeps what that call returned for comparison.    *)
(***************************************************************************)
\* what the caller can read once attack() has returned
RunSummary ==
    [outcome |-> outcome, result |-> result, attempts |-> attempts, found |-> found,
     found_password |-> found_password, pulled |-> pulled, tested |-> tested, last |-> candidate]

Reattack ==
    /\ pc = "done"
    /\ AttackEntry
    /\ IF engine = "hybrid"
       THEN /\ MASK_CHARS' = ComputeAll(MASK_CHARS)
            /\ mask_positions' = parse_mask(mask, ComputeAll(MASK_CHARS))
            /\ mask_variants' = MaskVariants(parse_mask(mask, ComputeAll(MASK_CHARS)))
       ELSE UNCHANGED <<MASK_CHARS, mask_positions, mask_variants>>
    /\ UNCHANGED <<mask, argVars>>
    /\ previous' = <<RunSummary>>
    /\ cancel_at' = <<>>
    /\ UNCHANGED extVars

NextRerun == Next \/ Reattack

SpecRerun == Init /\ [][NextRerun]_vars

\* the caller repeats the call with the progress callback added or left out
ReattackObserved ==
    /\ pc = "done"
    /\ AttackEntry
    /\ IF engine = "hybrid"
       THEN /\ MASK_CHARS' = ComputeAll(MASK_CHARS)
            /\ mask_positions' = parse_mask(mask, ComputeAll(MASK_CHARS))
            /\ mask_variants' = MaskVariants(parse_mask(mask, ComputeAll(MASK_CHARS)))
       ELSE UNCHANGED <<MASK_CHARS, mask_positions, mask_variants>>
    /\ progress_callback' = ~progress_callback
    /\ UNCHANGED <<mask, wordlist_file, position, rules, max_attempts>>
    /\ previous' = <<RunSummary>>
    /\ cancel_at' = <<>>
    /\ UNCHANGED extVars

NextObserved == Next \/ ReattackObserved

SpecObserved == Init /\ [][NextObserved]_vars

(***************************************************************************)
(* The host asks a running attack to stop.  No engine takes a cancellation *)
(* argument or reads a stop flag: the request changes nothing but the      *)
(* host's own record of it.                                                *)
(***************************************************************************)
\* the request is made before more than this many candidates were tested
MaxCancelPoint == 0

RequestCancel ==
    /\ pc \in {"loop", "try"}
    /\ cancel_at = <<>>
    /\ tested <= MaxCancelPoint
    /\ cancel_at' = <<tested>>
    /\ UNCHANGED <<envVars, MASK_CHARS, cfgVars, mask, selfVars, argVars, runVars, pc, previous, extVars>>

NextCancel == Next \/ RequestCancel

SpecCancel == Init /\ [][NextCancel]_vars

(***************************************************************************)
(* attack_generator() of BruteforceEngine, MaskEngine, DictionaryEngine    *)
(* and HybridEngine.  The body runs when the consumer calls next(): from   *)
(* the start or from the yield it was suspended at, up to the next yield   *)
(* or to the end of the generator.                                         *)
(***************************************************************************)
\* the first next(): self.attempts = 0, then the for loop is entered
GeneratorEntry ==
    /\ pc \in {"idle", "done"}
    /\ attempts' = 0
    /\ UNCHANGED <<found, found_password>>
    /\ gen' = GenStart
    /\ candidate' = None
    /\ is_match' = FALSE
    /\ outcome' = "running"
    /\ result' = None
    /\ pulled' = 0
    /\ tested' = 0
    /\ progress' = 0
    /\ progress_callback' = FALSE
    /\ max_attempts' = <<>>
    /\ pc' = "gloop"
    /\ UNCHANGED <<envVars, engine, supplied_hash, hash_value, algorithm, charset, min_length, max_length, supplied_length>>
    /\ UNCHANGED <<toolVars, other>>
    /\ previous' = <<>>
    /\ cancel_at' = <<>>

\* the head of the for loop: next() on the candidate source and the count
GeneratorHead(nx) ==
    /\ pc = "gloop"
    /\ IF nx.status = "item"
       THEN /\ gen' = nx.gen
            /\ candidate' = nx.item
            /\ attempts' = attempts + 1
            /\ pulled' = pulled + 1
            /\ pc' = "gtest"
            /\ UNCHANGED outcome
       ELSE /\ pc' = "done"
            /\ outcome' = IF nx.status = "stop" THEN "exhausted" ELSE "errored"
            /\ UNCHANGED <<gen, candidate, attempts, pulled>>
    /\ UNCHANGED <<envVars, MASK_CHARS, cfgVars, mask, found, found_password, argVars, mask_variants, result, tested, progress, hostVars, extVars>>

\* is_match = self._try_password(candidate); yield (candidate, is_match)
GeneratorYield ==
    /\ pc = "gtest"
    /\ \E salt \in Salts : is_match' = try_password(candidate, salt)
    /\ tested' = tested + 1
    /\ pc' = "yield"
    /\ UNCHANGED <<envVars, MASK_CHARS, cfgVars, mask, selfVars, argVars, mask_variants, candidate, gen, outcome, result, pulled, progress, hostVars, toolVars, other>>

\* the consumer calls next() again: the code after the yield
GeneratorResume ==
    /\ pc = "yield"
    /\ IF is_match
       THEN /\ found' = TRUE
            /\ found_password' = candidate
            /\ outcome' = "found"
            /\ pc' = "done"
       ELSE /\ pc' = "gloop"
            /\ UNCHANGED <<found, found_password, outcome>>
    /\ UNCHANGED <<envVars, MASK_CHARS, cfgVars, mask, attempts, argVars, mask_variants, candidate, gen, result, pulled, tested, progress, hostVars, extVars>>

BruteforceGenerator ==
    /\ engine = "bruteforce"
    /\ GeneratorEntry
    /\ UNCHANGED <<MASK_CHARS, mask, mask_positions, wordlist_file, position, rules, mask_variants>>

BruteforceGeneratorLoop == engine = "bruteforce" /\ GeneratorHead(BruteforceNext(gen))

MaskGenerator ==
    /\ engine = "mask"
    /\ GeneratorEntry
    /\ UNCHANGED <<MASK_CHARS, mask, mask_positions, wordlist_file, position, rules, mask_variants>>

MaskGeneratorLoop == engine = "mask" /\ GeneratorHead(MaskNext(gen))

DictionaryGenerator ==
    /\ engine = "dictionary"
    /\ GeneratorEntry
    /\ \E f \in WordlistFiles : wordlist_file' = f
    /\ UNCHANGED <<MASK_CHARS, mask, mask_positions, position, rules, mask_variants>>

DictionaryGeneratorLoop == engine = "dictionary" /\ GeneratorHead(DictionaryNext(gen))

HybridGenerator ==
    /\ engine = "hybrid"
    /\ GeneratorEntry
    /\ \E f \in WordlistFiles, m \in HybridMasks, pos \in {"suffix", "prefix"} :
          /\ wordlist_file' = f
          /\ position' = pos
          /\ mask' = m
          /\ MASK_CHARS' = ComputeAll(MASK_CHARS)
          /\ mask_positions' = parse_mask(m, ComputeAll(MASK_CHARS))
          /\ mask_variants' = MaskVariants(parse_mask(m, ComputeAll(MASK_CHARS)))
    /\ UNCHANGED rules

HybridGeneratorLoop == engine = "hybrid" /\ GeneratorHead(HybridNext(gen))

NextGenerator ==
    \/ Next
    \/ BruteforceGenerator \/ BruteforceGeneratorLoop
    \/ MaskGenerator \/ MaskGeneratorLoop
    \/ DictionaryGenerator \/ DictionaryGeneratorLoop
    \/ HybridGenerator \/ HybridGeneratorLoop
    \/ GeneratorYield \/ GeneratorResume

SpecGenerator == Init /\ [][NextGenerator]_vars

(***************************************************************************)
(* A caller builds a mask from a pattern with MaskEngine.build_mask,       *)
(* constructs a MaskEngine for it and asks HashcatWrapper for the keyspace *)
(* of the same mask.                                                       *)
(***************************************************************************)
\* longest pattern given to build_mask
MaxPatternLength == 3

\* longest mask, in positions, whose keyspace is asked for
MaxKeyspacePositions == 3

PatternAlphabet == {"0", "1", "2", "l", "d", "s", "a", "H", "x", "?"}

Patterns == UNION {[1..n -> PatternAlphabet] : n \in 0..MaxPatternLength} \cup { <<"3", "l", "2", "d">> }

BuildMask ==
    /\ pc = "new"
    /\ built = <<>>
    /\ \E pat \in Patterns :
          /\ pattern' = pat
          /\ built' = <<build_mask(pat)>>
    /\ UNCHANGED <<envVars, MASK_CHARS, cfgVars, mask, selfVars, argVars, runVars, pc, hostVars, is_match, keyspace, other>>

BuiltMaskInit ==
    /\ pc = "new"
    /\ built # <<>>
    /\ MaskConstruct(Junk, SHA256, built[1])

CalculateKeyspace ==
    /\ pc = "idle"
    /\ engine = "mask"
    /\ keyspace = <<>>
    /\ Len(mask_positions) <= MaxKeyspacePositions
    /\ keyspace' = <<calculate_mask_keyspace(mask)>>
    /\ UNCHANGED <<envVars, MASK_CHARS, cfgVars, mask, selfVars, argVars, runVars, pc, hostVars, is_match, pattern, built, other>>

NextMaskTools == BuildMask \/ BuiltMaskInit \/ CalculateKeyspace

SpecMaskTools == Init /\ [][NextMaskTools]_vars

(***************************************************************************)
(* Two engine instances whose construction and runs are interleaved.  The  *)
(* attributes, arguments and locals of the instance that is not running    *)
(* are kept in other; the module state (the environment and the class      *)
(* attribute MaskEngine.MASK_CHARS) is the same for both.                  *)
(***************************************************************************)
\* the attributes, arguments and locals of the running instance
Instance ==
    [engine |-> engine, supplied_hash |-> supplied_hash, hash_value |-> hash_value, algorithm |-> algorithm,
     charset |-> charset, min_length |-> min_length, max_length |-> max_length,
     supplied_length |-> supplied_length, mask |-> mask, mask_positions |-> mask_positions,
     attempts |-> attempts, found |-> found, found_password |-> found_password,
     wordlist_file |-> wordlist_file, position |-> position, rules |-> rules, max_attempts |-> max_attempts,
     progress_callback |-> progress_callback, mask_variants |-> mask_variants, candidate |-> candidate,
     gen |-> gen, pc |-> pc, outcome |-> outcome, result |-> result, pulled |-> pulled, tested |-> tested,
     progress |-> progress, is_match |-> is_match]

\* the scheduler lets the other instance run
Switch ==
    /\ other' = Instance
    /\ engine' = other.engine
    /\ supplied_hash' = other.supplied_hash
    /\ hash_value' = other.hash_value
    /\ algorithm' = other.algorithm
    /\ charset' = other.charset
    /\ min_length' = other.min_length
    /\ max_length' = other.max_length
    /\ supplied_length' = other.supplied_length
    /\ mask' = other.mask
    /\ mask_positions' = other.mask_positions
    /\ attempts' = other.attempts
    /\ found' = other.found
    /\ found_password' = other.found_password
    /\ wordlist_file' = other.wordlist_file
    /\ position' = other.position
    /\ rules' = other.rules
    /\ max_attempts' = other.max_attempts
    /\ progress_callback' = other.progress_callback
    /\ mask_variants' = other.mask_variants
    /\ candidate' = other.candidate
    /\ gen' = other.gen
    /\ pc' = other.pc
    /\ outcome' = other.outcome
    /\ result' = other.result
    /\ pulled' = other.pulled
    /\ tested' = other.tested
    /\ progress' = other.progress
    /\ is_match' = other.is_match
    /\ UNCHANGED <<envVars, MASK_CHARS, hostVars, toolVars>>

\* every library is installed
InitPair == Init /\ BCRYPT_AVAILABLE /\ ARGON2_AVAILABLE /\ backend_fault = {}

PairMaskInit ==
    /\ MaskInit
    /\ algorithm' = SHA256
    /\ mask' \in { <<"?", "a">>, <<"A", "?", "d", "B">> }

PairMaskAttack ==
    /\ MaskAttack
    /\ progress_callback' = FALSE
    /\ max_attempts' \in { <<>>, <<MaxCap>> }

PairHybridInit ==
    /\ HybridInit
    /\ algorithm' = SHA256
    /\ supplied_hash' = Junk

PairHybridAttack ==
    /\ HybridAttack
    /\ progress_callback' = FALSE
    /\ wordlist_file' = "words.txt"
    /\ mask' = <<"?", "d">>
    /\ position' = "suffix"

NextPair ==
    \/ PairMaskInit \/ PairMaskAttack \/ MaskLoop \/ MaskTry
    \/ PairHybridInit \/ PairHybridAttack \/ HybridLoop \/ HybridTry
    \/ Switch

SpecPair == InitPair /\ [][NextPair]_vars

(***************************************************************************)
(* The candidate sequence of a run, stated by rank: the k-th candidate     *)
(* (k = 1, 2, ...) as a mixed-radix numeral, most significant position     *)
(* leftmost.  Used by the properties below, not by the actions.            *)
(***************************************************************************)
RECURSIVE SizeFrom(_, _)
SizeFrom(pools, i) == IF i > Len(pools) THEN 1 ELSE Len(pools[i]) * SizeFrom(pools, i + 1)

NthOfProduct(pools, k) ==
    [i \in 1..Len(pools) |-> pools[i][(((k - 1) \div SizeFrom(pools, i + 1)) % Len(pools[i])) + 1]]

\* sum of n^L for L in lo..hi, in closed form
GeometricSum(n, lo, hi) ==
    IF lo > hi THEN 0
    ELSE IF n = 0 THEN (IF lo = 0 THEN 1 ELSE 0)
    ELSE IF n = 1 THEN hi - lo + 1
    ELSE (Pow(n, hi + 1) - Pow(n, lo)) \div (n - 1)

BruteforceTotal == GeometricSum(Len(charset), min_length, max_length)

\* the length of the candidate of rank k
BruteforceLengthAt(k) ==
    CHOOSE L \in min_length..max_length :
        /\ k <= GeometricSum(Len(charset), min_length, L)
        /\ k > GeometricSum(Len(charset), min_length, L - 1)

BruteforceAt(k) ==
    LET L == BruteforceLengthAt(k) IN
    NthOfProduct([i \in 1..L |-> charset], k - GeometricSum(Len(charset), min_length, L - 1))

\* the charsets the placeholders denote
PlaceholderSets == {ComputeAll(MASK_CHARS_0)[ph] : ph \in DOMAIN MASK_CHARS_0}

\* the choices of a parsed position: the set of a placeholder, else the literal alone
PositionChoices(pos) == IF pos \in PlaceholderSets THEN pos ELSE <<pos[1]>>

MaskChoices == [i \in 1..Len(mask_positions) |-> PositionChoices(mask_positions[i])]

MaskTotal == SizeFrom(MaskChoices, 1)

MaskAt(k) == NthOfProduct(MaskChoices, k)

\* the words of the wordlist, in file order
Words == IF FileExists(wordlist_file)
         THEN LET ls == SelectSeq(FileLines(wordlist_file), IsWord) IN [k \in 1..Len(ls) |-> Strip(ls[k])]
         ELSE <<>>

HybridTotal == Len(Words) * MaskTotal

HybridAt(k) ==
    LET word == Words[((k - 1) \div MaskTotal) + 1]
        variant == MaskAt(((k - 1) % MaskTotal) + 1)
    IN IF position = "suffix" THEN word \o variant ELSE variant \o word

RECURSIVE CountRules(_, _)
CountRules(word, q) == IF q > Len(rules) THEN 0 ELSE RuleCount(word, rules[q]) + CountRules(word, q + 1)

RECURSIVE RuleTotalFrom(_)
RuleTotalFrom(n) == IF n > Len(Words) THEN 0 ELSE CountRules(Words[n], 1) + RuleTotalFrom(n + 1)

RuleTotal == RuleTotalFrom(1)

RECURSIVE LocateRule(_, _, _)
LocateRule(word, q, k) ==
    IF k <= RuleCount(word, rules[q]) THEN RuleAt(word, rules[q], k)
    ELSE LocateRule(word, q + 1, k - RuleCount(word, rules[q]))

RECURSIVE LocateWord(_, _)
LocateWord(n, k) ==
    IF k <= CountRules(Words[n], 1) THEN LocateRule(Words[n], 1, k)
    ELSE LocateWord(n + 1, k - CountRules(Words[n], 1))

RuleAtRank(k) == LocateWord(1, k)

\* number of candidates the run generates when nothing stops it
GeneratedTotal ==
    CASE engine = "bruteforce" -> BruteforceTotal
      [] engine = "mask" -> MaskTotal
      [] engine = "dictionary" -> Len(Words)
      [] engine = "hybrid" -> HybridTotal
      [] engine = "rule" -> RuleTotal
      [] OTHER -> 0

\* the candidate of rank k in generation order
GeneratedAt(k) ==
    CASE engine = "bruteforce" -> BruteforceAt(k)
      [] engine = "mask" -> MaskAt(k)
      [] engine = "dictionary" -> Words[k]
      [] engine = "hybrid" -> HybridAt(k)
      [] engine = "rule" -> RuleAtRank(k)

\* the candidate matches the target
Matches(c) == \E salt \in Salts : try_password(c, salt)

\* ranks of the matching candidates
MatchRanks == {k \in 1..GeneratedTotal : Matches(GeneratedAt(k))}

Least(S) == CHOOSE k \in S : \A j \in S : k <= j

\* the run has no attempt cap
Uncapped == engine \notin {"bruteforce", "mask"} \/ max_attempts = <<>> \/ max_attempts = <<0>>

\* the word source of the run can be read
SourceOk == engine \in {"dictionary", "hybrid", "rule"} => (FileExists(wordlist_file) /\ ReadFailsAt(wordlist_file) = 0)

\* attack() has returned
Returned == pc = "done"

(***************************************************************************)
(* C1: an uncapped attack() over a sequence that holds a matching          *)
(* candidate returns the first matching candidate in generation order,     *)
(* records it in found / found_password, has pulled and tested no          *)
(* candidate after it, and ends with attempts equal to its 1-indexed rank. *)
(***************************************************************************)
C1_FirstMatchReturned ==
    (Returned /\ Uncapped /\ SourceOk /\ MatchRanks # {}) =>
        LET r == Least(MatchRanks) IN
        /\ outcome = "found"
        /\ result = GeneratedAt(r)
        /\ found
        /\ found_password = GeneratedAt(r)
        /\ pulled = r
        /\ tested = r
        /\ attempts = r

C1_Witness ==
    /\ Returned /\ Uncapped /\ outcome = "found"
    /\ engine = "bruteforce" /\ charset = <<"a", "b">> /\ min_length = 1
    /\ result = <<"a", "b">> /\ attempts = 4 /\ MatchRanks = {4}

(***************************************************************************)
(* C2: bruteforce and mask attack() with max_attempts = N >= 1, a keyspace *)
(* larger than N and no matching candidate end Capped: None is returned,   *)
(* found is false, attempts = N and exactly N candidates were pulled.      *)
(***************************************************************************)
C2_CapEnforced ==
    (/\ Returned
     /\ engine \in {"bruteforce", "mask"}
     /\ max_attempts # <<>>
     /\ max_attempts[1] >= 1
     /\ GeneratedTotal > max_attempts[1]
     /\ MatchRanks = {}) =>
        /\ outcome = "capped"
        /\ result = None
        /\ ~found
        /\ found_password = None
        /\ attempts = max_attempts[1]
        /\ pulled = max_attempts[1]

C2_Witness ==
    /\ Returned /\ engine = "mask" /\ outcome = "capped"
    /\ max_attempts = <<MaxCap>> /\ attempts = MaxCap /\ pulled = MaxCap
    /\ GeneratedTotal > MaxCap /\ MatchRanks = {}

(***************************************************************************)
(* C3: an uncapped attack() over a finite sequence without a matching      *)
(* candidate ends Exhausted: None is returned, found is false,             *)
(* found_password is null and attempts is the number of candidates the     *)
(* generator produces (estimate_total_attempts() for bruteforce and mask,  *)
(* |words| x mask keyspace for hybrid, |words| for dictionary).            *)
(***************************************************************************)
C3_Exhausted ==
    (Returned /\ Uncapped /\ SourceOk /\ MatchRanks = {}) =>
        /\ outcome = "exhausted"
        /\ result = None
        /\ ~found
        /\ found_password = None
        /\ attempts = GeneratedTotal
        /\ pulled = GeneratedTotal
        /\ engine = "bruteforce" => attempts = BruteforceEstimate
        /\ engine = "mask" => attempts = MaskEstimate
        /\ engine = "hybrid" => attempts = Len(Words) * MaskEstimate
        /\ engine = "dictionary" => attempts = Len(Words)

C3_Witness ==
    /\ Returned /\ outcome = "exhausted" /\ engine = "hybrid"
    /\ wordlist_file = "words.txt" /\ mask = <<"?", "d">> /\ attempts = 30

(***************************************************************************)
(* C4: for BCRYPT, ARGON2 and PBKDF2-SHA256 _try_password(candidate)       *)
(* returns exactly verify(candidate, target digest, algorithm); the        *)
(* outcome of a fresh hash(candidate) computation does not change it.      *)
(***************************************************************************)
C4_VerifyDecides ==
    (pc = "try" /\ algorithm \in VerifyStyle) =>
        \A salt \in Salts : try_password(candidate, salt) = verify_hash(candidate, hash_value, algorithm)

(***************************************************************************)
(* C5: for MD5, SHA1, SHA256, SHA512 and NTLM _try_password(candidate) is  *)
(* true exactly when hash(candidate) equals the trimmed target digest      *)
(* compared without regard to letter case, so a target in upper or mixed   *)
(* case matches the same candidates as its lower-case form.                *)
(***************************************************************************)
C5_CaseInsensitiveCompare ==
    (pc = "try" /\ algorithm \in FastUnsalted) =>
        \A salt \in Salts :
            try_password(candidate, salt) <=>
                /\ ~generate_hash_raises(candidate, algorithm)
                /\ Lower(hexdigest(candidate, algorithm)) = Lower(Strip(supplied_hash))

C5_Witness ==
    /\ pc = "try" /\ algorithm \in FastUnsalted
    /\ supplied_hash # Strip(supplied_hash)
    /\ Strip(supplied_hash) # Lower(Strip(supplied_hash))
    /\ \A salt \in Salts : try_password(candidate, salt)

(***************************************************************************)
(* C6: the target digest is trimmed for every algorithm and case-folded    *)
(* only for the hexadecimal digests; for BCRYPT, ARGON2 and PBKDF2-SHA256  *)
(* the digest handed to verify has the letter case the caller supplied,    *)
(* and a candidate that verifies against the caller's digest is reported   *)
(* as a match.                                                             *)
(***************************************************************************)
C6_CaseKeptForVerifyStyle ==
    /\ (pc # "new" /\ algorithm \in FastUnsalted) => hash_value = Lower(Strip(supplied_hash))
    /\ (pc # "new" /\ algorithm \in VerifyStyle) => hash_value = Strip(supplied_hash)
    /\ (pc = "try" /\ algorithm \in VerifyStyle /\ ~generate_hash_raises(candidate, algorithm)
            /\ verify_hash(candidate, Strip(supplied_hash), algorithm)) =>
          \A salt \in Salts : try_password(candidate, salt)

(***************************************************************************)
(* C7: a candidate whose digest computation or verification raises is no   *)
(* match: _try_password returns false, attack() does not raise, the        *)
(* attempt stays counted, the loop goes on with the next candidate in      *)
(* order, and a later matching candidate is still found.                   *)
(***************************************************************************)
\* the stored digest makes the verify call of the library raise
VerifyRaises(c) ==
    \/ EncodeRaises(c)
    \/ /\ algorithm = BCRYPT
       /\ ~(/\ Len(hash_value) = Len(BcryptPrefix) + 2
            /\ SubSeq(hash_value, 1, Len(BcryptPrefix)) = BcryptPrefix)
    \/ /\ algorithm = ARGON2
       /\ ~(/\ Len(hash_value) = Len(Argon2Prefix) + 2
            /\ SubSeq(hash_value, 1, Len(Argon2Prefix)) = Argon2Prefix)
    \/ /\ algorithm = PBKDF2_SHA256
       /\ Len(Split(hash_value, "$")) = 3
       /\ ~(IsInt(Split(hash_value, "$")[1]) /\ IsHex(Split(hash_value, "$")[2]))

Raises(c) == generate_hash_raises(c, algorithm) \/ (algorithm \in VerifyStyle /\ VerifyRaises(c))

C7_Step ==
    /\ (pc = "try" /\ Raises(candidate)) =>
          /\ pc' = "loop"
          /\ attempts' = attempts
          /\ attempts = pulled
          /\ tested' = pulled
          /\ found' = FALSE
          /\ outcome' = "running"
    /\ (pc = "loop" /\ pc' = "try") => candidate' = GeneratedAt(pulled + 1)

C7_Returned ==
    /\ (Returned /\ outcome = "errored") => ~SourceOk
    /\ (Returned /\ Uncapped /\ SourceOk /\ MatchRanks # {}) =>
          /\ outcome = "found"
          /\ result = GeneratedAt(Least(MatchRanks))

C7_RaisingCandidateIsNoMatch == [][C7_Step]_vars /\ []C7_Returned

C7_Witness ==
    /\ Returned /\ outcome = "found" /\ engine = "bruteforce"
    /\ attempts = 3 /\ pulled = 3 /\ tested = 3
    /\ Raises(GeneratedAt(2)) /\ result = GeneratedAt(3)

(***************************************************************************)
(* C8: BruteforceEngine generates, for each length from min_length to      *)
(* max_length in ascending order, every tuple over the charset in charset  *)
(* order with the leftmost position slowest; for charset "ab", min 1 and   *)
(* max 2 the sequence is a, b, aa, ab, ba, bb.                             *)
(***************************************************************************)
C8_Example == << <<"a">>, <<"b">>, <<"a", "a">>, <<"a", "b">>, <<"b", "a">>, <<"b", "b">> >>

C8_BruteforceOrder ==
    (engine = "bruteforce" /\ pulled >= 1) =>
        /\ candidate = BruteforceAt(pulled)
        /\ Len(candidate) = BruteforceLengthAt(pulled)
        /\ (charset = <<"a", "b">> /\ min_length = 1 /\ max_length = 2) => candidate = C8_Example[pulled]

C8_Witness ==
    /\ engine = "bruteforce" /\ charset = <<"a", "b">> /\ min_length = 1 /\ max_length = 2
    /\ pulled = 6 /\ candidate = <<"b", "b">>

(***************************************************************************)
(* C9: the number of candidates BruteforceEngine generates is the sum of   *)
(* |charset|^L for L from min_length to max_length, repeated characters    *)
(* counted, and estimate_total_attempts() returns that number.             *)
(***************************************************************************)
C9_BruteforceCount ==
    engine = "bruteforce" =>
        /\ BruteforceEstimate = GeometricSum(Len(charset), min_length, max_length)
        /\ pulled <= BruteforceEstimate
        /\ (Returned /\ outcome = "exhausted") => pulled = BruteforceEstimate

C9_Witness ==
    /\ engine = "bruteforce" /\ charset = <<"a", "a">> /\ min_length = 1 /\ max_length = 2
    /\ Returned /\ outcome = "exhausted" /\ pulled = 6

(***************************************************************************)
(* C10: estimate_total_attempts() of MaskEngine is the product over the    *)
(* parsed positions of 1 for a literal and |charset| for a placeholder,    *)
(* and is the number of candidates _generate_candidates yields; ?l?l?d has *)
(* keyspace 6760 and A?dB parses to literal A, the digits, literal B with  *)
(* keyspace 10.                                                            *)
(***************************************************************************)
C10_MaskKeyspace ==
    engine = "mask" =>
        /\ MaskEstimate = MaskTotal
        /\ pulled <= MaskEstimate
        /\ (Returned /\ outcome = "exhausted") => pulled = MaskEstimate
        /\ mask = <<"?", "l", "?", "l", "?", "d">> => MaskEstimate = 6760
        /\ mask = <<"A", "?", "d", "B">> =>
              /\ mask_positions = << <<"A">>, digits, <<"B">> >>
              /\ MaskEstimate = 10

C10_Witness ==
    /\ engine = "mask" /\ mask = <<"?", "l", "?", "l", "?", "d">>
    /\ Returned /\ outcome = "exhausted" /\ pulled = 6760

(***************************************************************************)
(* C11: _parse_mask takes a '?' that is not followed by one of l, u, d, s, *)
(* a, h, H (a trailing '?' included) as one literal '?' position and scans *)
(* the next character on its own: "?x" parses to the literals '?' and 'x'  *)
(* with keyspace 1, "??d" to the literal '?' followed by the digit set.    *)
(***************************************************************************)
PlaceholderLetters == {"l", "u", "d", "s", "a", "h", "H"}

\* the set a placeholder letter stands for
PlaceholderSet(c) ==
    CASE c = "l" -> lowercase
      [] c = "u" -> uppercase
      [] c = "d" -> digits
      [] c = "s" -> special
      [] c = "a" -> lowercase \o uppercase \o digits \o special
      [] c = "h" -> hexlower
      [] c = "H" -> hexupper

\* the positions of a mask read from character i on
RECURSIVE ExpectedPositions(_, _)
ExpectedPositions(m, i) ==
    IF i > Len(m) THEN <<>>
    ELSE IF m[i] = "?" /\ i < Len(m) /\ m[i + 1] \in PlaceholderLetters
    THEN <<PlaceholderSet(m[i + 1])>> \o ExpectedPositions(m, i + 2)
    ELSE << <<m[i]>> >> \o ExpectedPositions(m, i + 1)

C11_UnknownTokenIsLiteral ==
    /\ mask_positions = ExpectedPositions(mask, 1)
    /\ mask = <<"?", "x">> =>
          /\ mask_positions = << <<"?">>, <<"x">> >>
          /\ MaskEstimate = 1
          /\ (engine = "mask" /\ pulled >= 1) => (pulled = 1 /\ candidate = <<"?", "x">>)
    /\ mask = <<"?", "?", "d">> => mask_positions = << <<"?">>, digits >>
    /\ mask = <<"a", "?">> => mask_positions = << <<"a">>, <<"?">> >>

C11_Witness ==
    /\ engine = "mask" /\ mask = <<"?", "x">> /\ Returned /\ outcome = "exhausted"
    /\ pulled = 1 /\ tested = 1 /\ candidate = <<"?", "x">>

(***************************************************************************)
(* C12: MaskEngine generates the Cartesian product of its positions in     *)
(* position order, the leftmost position varying slowest; every candidate  *)
(* is as long as the number of positions, carries the literal at a literal *)
(* position, and at a placeholder position runs through the set in the     *)
(* order the set is defined.                                               *)
(***************************************************************************)
\* the index, in its set, of the character the candidate of rank k has at position i
DigitOfRank(k, i) == (((k - 1) \div SizeFrom(MaskChoices, i + 1)) % Len(MaskChoices[i])) + 1

C12_MaskOrder ==
    (engine = "mask" /\ pulled >= 1) =>
        /\ candidate = MaskAt(pulled)
        /\ Len(candidate) = Len(mask_positions)
        /\ \A i \in 1..Len(mask_positions) :
              IF mask_positions[i] \in PlaceholderSets
              THEN candidate[i] = mask_positions[i][DigitOfRank(pulled, i)]
              ELSE candidate[i] = mask_positions[i][1]

C12_Witness ==
    /\ engine = "mask" /\ mask = <<"?", "l", "?", "l", "?", "d">>
    /\ pulled = 271 /\ candidate = <<"b", "b", "0">>

(***************************************************************************)
(* C13: HybridEngine tests, for the words w1..wn in source order and the   *)
(* mask variants v1..vm in mask-generator order, wi+vj when position is    *)
(* suffix and vj+wi when it is prefix, j varying fastest: n x m candidates *)
(* when none matches, all m variants of wi before any candidate of wi+1;   *)
(* three words with mask ?d?d and suffix give exactly 300.                 *)
(***************************************************************************)
C13_HybridOrder ==
    engine = "hybrid" =>
        /\ \A j \in 1..Len(mask_variants) : mask_variants[j] = MaskAt(j)
        /\ pulled >= 1 =>
              LET i == ((pulled - 1) \div Len(mask_variants)) + 1
                  j == ((pulled - 1) % Len(mask_variants)) + 1
              IN /\ i <= Len(Words)
                 /\ position = "suffix" => candidate = Words[i] \o mask_variants[j]
                 /\ position = "prefix" => candidate = mask_variants[j] \o Words[i]
        /\ (Returned /\ outcome = "exhausted") => pulled = Len(Words) * Len(mask_variants)
        /\ (/\ Returned /\ outcome = "exhausted" /\ wordlist_file = "words.txt"
            /\ mask = <<"?", "d", "?", "d">> /\ position = "suffix") =>
              /\ Len(Words) = 3
              /\ Len(mask_variants) = 100
              /\ pulled = 300 /\ attempts = 300 /\ tested = 300

C13_Witness ==
    /\ engine = "hybrid" /\ Returned /\ outcome = "exhausted"
    /\ wordlist_file = "words.txt" /\ mask = <<"?", "d", "?", "d">> /\ position = "suffix"
    /\ pulled = 300 /\ candidate = <<"A", "7", "9", "9">>

(***************************************************************************)
(* C14: for each word the rule attack tests the concatenation, in the      *)
(* caller's rule order, of each rule's own candidate sequence, all         *)
(* candidates of word k before any of word k+1; with the default rules     *)
(* (original, capitalize, uppercase, lowercase, append_digits,             *)
(* prepend_digits, leetspeak_simple) every word yields exactly 205         *)
(* candidates in that order, the two digit rules running through the       *)
(* zero-padded numbers 00..99 in ascending order.                          *)
(***************************************************************************)
C14_DefaultRuleSet ==
    <<"original", "capitalize", "uppercase", "lowercase", "append_digits", "prepend_digits", "leetspeak_simple">>

\* the decimal numeral of n in 0..99, zero-padded to two digits
ZeroPadded(n) == <<digits[(n \div 10) + 1], digits[(n % 10) + 1]>>

\* the j-th of the 205 candidates of a word under the default rules
DefaultCandidate(w, j) ==
    CASE j = 1 -> w
      [] j = 2 -> Capitalize(w)
      [] j = 3 -> Upper(w)
      [] j = 4 -> Lower(w)
      [] j \in 5..104 -> w \o ZeroPadded(j - 5)
      [] j \in 105..204 -> ZeroPadded(j - 105) \o w
      [] j = 205 -> Leetspeak(w)

C14_RuleOrder ==
    engine = "rule" =>
        /\ pulled >= 1 => candidate = RuleAtRank(pulled)
        /\ (pulled >= 1 /\ rules = C14_DefaultRuleSet) =>
              candidate = DefaultCandidate(Words[((pulled - 1) \div 205) + 1], ((pulled - 1) % 205) + 1)
        /\ (Returned /\ outcome = "exhausted") => pulled = RuleTotal
        /\ (Returned /\ outcome = "exhausted" /\ rules = C14_DefaultRuleSet) => pulled = 205 * Len(Words)

C14_Witness ==
    /\ engine = "rule" /\ rules = C14_DefaultRuleSet /\ wordlist_file = "words.txt"
    /\ Returned /\ outcome = "exhausted" /\ pulled = 615 /\ candidate = <<"@", "7">>

(***************************************************************************)
(* C15: leetspeak_simple yields exactly one candidate per word: the word   *)
(* lower-cased and passed through a->@, e->3, i->1, o->0, s->$ applied one *)
(* after the other; for every word this is the simultaneous substitution   *)
(* character by character, e.g. "Sales" gives "$@l3$".                     *)
(***************************************************************************)
\* longest word the substitutions are compared on
MaxWordLength == 2

LeetAlphabet == {"a", "e", "i", "o", "s", "@", "3", "1", "0", "$", "S", "x"}

LeetWords == UNION {[1..n -> LeetAlphabet] : n \in 0..MaxWordLength}

\* the substitute of one lower-case character
LeetChar(ch) ==
    CASE ch = "a" -> "@"
      [] ch = "e" -> "3"
      [] ch = "i" -> "1"
      [] ch = "o" -> "0"
      [] ch = "s" -> "$"
      [] OTHER -> ch

\* every character replaced at once
LeetSimultaneous(word) == [k \in 1..Len(word) |-> LeetChar(LowerChar(word[k]))]

C15_LeetspeakSinglePass ==
    /\ (engine = "rule" /\ pc = "try" /\ rules[gen.r] = "leetspeak_simple") =>
          /\ gen.i = 1
          /\ candidate = LeetSimultaneous(WordAt(wordlist_file, gen.w))
          /\ wordlist_file = "one.txt" => candidate = <<"$", "@", "l", "3", "$">>
    /\ (engine = "rule" /\ pc = "idle") =>
          \A w \in LeetWords : Leetspeak(w) = LeetSimultaneous(w)

C15_Witness ==
    /\ engine = "rule" /\ pc = "try" /\ rules[gen.r] = "leetspeak_simple"
    /\ wordlist_file = "one.txt" /\ candidate = <<"$", "@", "l", "3", "$">>

(***************************************************************************)
(* C18: when the word source fails in the middle of the iteration, after k *)
(* candidates were counted, attack() of the dictionary, hybrid and rule    *)
(* engines ends Errored: an error reaches the caller, attempts is still k, *)
(* found is false and found_password is null.                              *)
(***************************************************************************)
\* the wordlist opens and a later read of it fails
SourceFailsMidway == FileExists(wordlist_file) /\ ReadFailsAt(wordlist_file) > 0

C18_SourceFailureKeepsCount ==
    (/\ engine \in {"dictionary", "hybrid", "rule"}
     /\ Returned
     /\ SourceFailsMidway
     /\ MatchRanks = {}) =>
        /\ outcome = "errored"
        /\ attempts = GeneratedTotal
        /\ pulled = GeneratedTotal
        /\ tested = GeneratedTotal
        /\ ~found
        /\ found_password = None
        /\ result = None

C18_Witness ==
    /\ engine = "rule" /\ Returned /\ SourceFailsMidway /\ outcome = "errored"
    /\ rules = C14_DefaultRuleSet /\ attempts = 205 /\ ~found

(***************************************************************************)
(* C19: a configuration error (a mask that parses to zero positions, an    *)
(* empty charset, a wordlist that cannot be resolved) is raised when the   *)
(* engine is constructed and never during a run: no engine holds such a    *)
(* configuration, no run is started on a wordlist that does not exist, and *)
(* no candidate is generated or counted for such a configuration.          *)
(***************************************************************************)
\* the configuration the engine holds is one the specification rejects
ConfigError ==
    \/ engine = "mask" /\ mask_positions = <<>>
    \/ engine = "bruteforce" /\ charset = <<>>
    \/ engine \in {"dictionary", "hybrid", "rule"} /\ pc \in {"loop", "try", "done"} /\ ~FileExists(wordlist_file)

C19_ConfigErrorsAtConstruction ==
    pc # "new" =>
        /\ ~ConfigError
        /\ ConfigError => (pulled = 0 /\ attempts = 0 /\ outcome \notin {"running", "errored"})

(***************************************************************************)
(* C20: when the library of a verify-style algorithm (bcrypt, argon2) is   *)
(* missing, the failure reaches the caller as a fatal error at the first   *)
(* hash or verify call of the attack: no further candidate is tested and   *)
(* the failure is not taken for a candidate that does not match.           *)
(***************************************************************************)
BackendMissing ==
    \/ algorithm = BCRYPT /\ ~BCRYPT_AVAILABLE
    \/ algorithm = ARGON2 /\ ~ARGON2_AVAILABLE

C20_BackendFailureIsFatal ==
    (BackendMissing /\ tested >= 1) =>
        /\ Returned
        /\ outcome = "errored"
        /\ tested = 1
        /\ pulled = 1

(***************************************************************************)
(* C16: attack() called again with the same arguments on the same engine   *)
(* instance, after a run that ended Found, Capped or Exhausted, tests the  *)
(* same candidates in the same order and ends with the same result and the *)
(* same attempts: the candidate sequence is the one of the configuration,  *)
(* whatever ran before.                                                    *)
(***************************************************************************)
C16_Restartable ==
    (previous # <<>> /\ previous[1].outcome \in {"found", "capped", "exhausted"}) =>
        LET before == previous[1] IN
        /\ pulled >= 1 => candidate = GeneratedAt(pulled)
        /\ pulled <= before.pulled
        /\ tested <= before.tested
        /\ Returned =>
              /\ outcome = before.outcome
              /\ result = before.result
              /\ attempts = before.attempts
              /\ found = before.found
              /\ found_password = before.found_password
              /\ pulled = before.pulled
              /\ tested = before.tested
              /\ candidate = before.last

C16_Witness ==
    /\ previous # <<>> /\ Returned
    /\ engine = "bruteforce" /\ charset = <<"a", "b">> /\ min_length = 1
    /\ previous[1].outcome = "found" /\ previous[1].result = <<"a", "b">> /\ previous[1].attempts = 4
    /\ outcome = "found" /\ result = <<"a", "b">> /\ attempts = 4

(***************************************************************************)
(* C17: while an attack is running a cancellation signal is checked at     *)
(* least once per candidate: once the signal is set the run tests at most  *)
(* one more candidate and then ends in a Cancelled state that is none of   *)
(* Found, Exhausted and Capped.                                            *)
(***************************************************************************)
C17_CancellationObserved ==
    cancel_at # <<>> =>
        /\ tested <= cancel_at[1] + 1
        /\ (/\ Returned /\ Uncapped /\ SourceOk
            /\ GeneratedTotal > cancel_at[1] + 1
            /\ \A k \in MatchRanks : k > cancel_at[1] + 1) => outcome = "cancelled"

(***************************************************************************)
(* C28: under a cap N every candidate counted in attempts has been passed  *)
(* to the match test before attack() returns: bruteforce and mask          *)
(* attack(max_attempts=N) whose first matching candidate has rank r <= N   *)
(* return that candidate with found true.                                  *)
(***************************************************************************)
C28_CapKeepsCountedCandidates ==
    (/\ Returned
     /\ engine \in {"bruteforce", "mask"}
     /\ max_attempts # <<>>
     /\ max_attempts[1] >= 1) =>
        /\ tested = attempts
        /\ (MatchRanks # {} /\ Least(MatchRanks) <= max_attempts[1]) =>
              /\ outcome = "found"
              /\ result = GeneratedAt(Least(MatchRanks))
              /\ found

(***************************************************************************)
(* C27: BruteforceEngine clamps its bounds at construction: a min_length   *)
(* below 1 becomes 1 and a max_length below the clamped min_length is      *)
(* raised to min_length, so 1 <= min_length <= max_length holds for every  *)
(* constructed engine, and the candidates generated have exactly the       *)
(* lengths min_length..max_length.                                         *)
(***************************************************************************)
C27_LengthsClamped ==
    engine = "bruteforce" =>
        /\ min_length = (IF supplied_length[1] < 1 THEN 1 ELSE supplied_length[1])
        /\ max_length = (IF supplied_length[2] < min_length THEN min_length ELSE supplied_length[2])
        /\ 1 <= min_length
        /\ min_length <= max_length
        /\ pulled >= 1 => Len(candidate) \in min_length..max_length
        /\ pulled = 1 => Len(candidate) = min_length
        /\ (Returned /\ outcome = "exhausted" /\ charset # <<>>) =>
              /\ Len(candidate) = max_length
              /\ pulled = GeometricSum(Len(charset), min_length, max_length)

C27_Witness ==
    /\ engine = "bruteforce" /\ supplied_length = <<0, 0>> /\ min_length = 1 /\ max_length = 1
    /\ charset = <<"a", "b">> /\ Returned /\ outcome = "exhausted" /\ pulled = 2 /\ candidate = <<"b">>

(***************************************************************************)
(* C23: the named character sets have the sizes lowercase 26, uppercase    *)
(* 26, digits 10, special 32, space 1, hex-lower 16 and hex-upper 16; ?a   *)
(* is lowercase + uppercase + digits + special in that order; a set name   *)
(* of BruteforceEngine.CHARSETS and the corresponding placeholder of       *)
(* MaskEngine.MASK_CHARS denote the same sequence.                         *)
(***************************************************************************)
\* the set names of CHARSETS and the placeholders that correspond to them
C23_Corresponding ==
    { << <<"l", "o", "w", "e", "r", "c", "a", "s", "e">>, <<"?", "l">> >>,
      << <<"u", "p", "p", "e", "r", "c", "a", "s", "e">>, <<"?", "u">> >>,
      << <<"d", "i", "g", "i", "t", "s">>, <<"?", "d">> >>,
      << <<"s", "p", "e", "c", "i", "a", "l">>, <<"?", "s">> >> }

C23_CharsetSizes ==
    /\ Len(CHARSETS[<<"l", "o", "w", "e", "r", "c", "a", "s", "e">>]) = 26
    /\ Len(CHARSETS[<<"u", "p", "p", "e", "r", "c", "a", "s", "e">>]) = 26
    /\ Len(CHARSETS[<<"d", "i", "g", "i", "t", "s">>]) = 10
    /\ Len(CHARSETS[<<"s", "p", "a", "c", "e">>]) = 1
    /\ Len(MASK_CHARS[<<"?", "h">>]) = 16
    /\ Len(MASK_CHARS[<<"?", "H">>]) = 16
    /\ \A pair \in C23_Corresponding : CHARSETS[pair[1]] = MASK_CHARS[pair[2]]
    /\ engine = "mask" =>
          MASK_CHARS[<<"?", "a">>] =
              MASK_CHARS[<<"?", "l">>] \o MASK_CHARS[<<"?", "u">>] \o MASK_CHARS[<<"?", "d">>] \o MASK_CHARS[<<"?", "s">>]
    /\ Len(CHARSETS[<<"s", "p", "e", "c", "i", "a", "l">>]) = 32
    /\ Len(MASK_CHARS[<<"?", "s">>]) = 32

(***************************************************************************)
(* C24: at the start of every run, attack() and attack_generator() alike   *)
(* and also on an instance whose previous run ended Found, attempts is     *)
(* reset to 0, found is cleared to false and found_password to null before *)
(* the first candidate is pulled, so after a run that finds nothing found  *)
(* is false.                                                               *)
(***************************************************************************)
\* a run is under way and has recorded no match
RunUnderWay == pc \in {"loop", "try", "gloop", "gtest"} \/ (pc = "yield" /\ ~is_match)

C24_RunStartResets ==
    /\ RunUnderWay =>
          /\ attempts = pulled
          /\ ~found
          /\ found_password = None
    /\ (Returned /\ outcome \in {"exhausted", "capped"}) =>
          /\ ~found
          /\ found_password = None

(***************************************************************************)
(* C29: whenever attack_generator() has yielded a pair (c, true) the       *)
(* engine already reports the match, found is true and found_password = c, *)
(* whether or not the consumer resumes the generator; and wherever control *)
(* is with the consumer, found is true exactly when found_password is not  *)
(* null.                                                                   *)
(***************************************************************************)
\* control is with the caller of the engine
WithConsumer == pc \in {"idle", "yield", "done"}

C29_YieldedMatchIsRecorded ==
    /\ (pc = "yield" /\ is_match) =>
          /\ found
          /\ found_password = candidate
    /\ WithConsumer => (found <=> found_password # None)

(***************************************************************************)
(* C25: within one attack generation and matching are strictly sequential: *)
(* candidate N+1 is never requested from the generator before the match    *)
(* test of candidate N has completed, in attack() and in                   *)
(* attack_generator() of every engine.  A candidate of HybridEngine is the *)
(* pair built in the loop body; the mask variants it is built from are     *)
(* listed before the loop.                                                 *)
(***************************************************************************)
C25_Step ==
    /\ pulled' = pulled + 1 => tested = pulled
    /\ tested' = tested + 1 => (pulled = tested + 1 /\ pulled' = pulled /\ candidate' = candidate)

C25_InStep == tested <= pulled /\ pulled <= tested + 1

C25_StrictlySequential == [][C25_Step]_vars /\ []C25_InStep

C25_Witness ==
    /\ engine = "hybrid" /\ pc = "gtest" /\ pulled = 3 /\ tested = 2
    /\ wordlist_file = "words.txt" /\ mask = <<"?", "d">>

(***************************************************************************)
(* C21: the progress callback is an observer invoked at every N-th attempt *)
(* (N = 100 for dictionary, hybrid and rule, N = 1000 for bruteforce and   *)
(* mask): attack() with a callback that returns normally returns the same  *)
(* result, ends with the same attempts, found and found_password, and      *)
(* tests the same candidates in the same order as attack() without one.    *)
(***************************************************************************)
\* the N of the engine
C21_Every == IF engine \in {"bruteforce", "mask"} THEN 1000 ELSE 100

C21_CallbackObserves ==
    /\ pc \in {"loop", "try", "done"} =>
          progress = (IF progress_callback THEN attempts \div C21_Every ELSE 0)
    /\ previous # <<>> =>
          LET other_run == previous[1] IN
          /\ pulled >= 1 => candidate = GeneratedAt(pulled)
          /\ pulled <= other_run.pulled
          /\ tested <= other_run.tested
          /\ Returned =>
                /\ outcome = other_run.outcome
                /\ result = other_run.result
                /\ attempts = other_run.attempts
                /\ found = other_run.found
                /\ found_password = other_run.found_password
                /\ pulled = other_run.pulled
                /\ tested = other_run.tested
                /\ candidate = other_run.last

C21_Witness ==
    /\ engine = "hybrid" /\ Returned /\ progress_callback /\ progress = 3
    /\ previous # <<>> /\ previous[1].attempts = 300 /\ previous[1].outcome = "exhausted"
    /\ attempts = 300 /\ outcome = "exhausted"

(***************************************************************************)
(* C22: for every pattern made of tokens (an optional decimal count        *)
(* followed by one character) build_mask returns the concatenation, in     *)
(* token order, of the token's placeholder (?l ?u ?d ?s ?a ?h ?H for the   *)
(* type letters) or literal character repeated count times, the count      *)
(* defaulting to 1; _parse_mask reads the result as exactly count          *)
(* positions of that set or literal per token: "3l2d" gives three          *)
(* lowercase positions followed by two digit positions.                    *)
(***************************************************************************)
\* the pattern is a sequence of complete tokens
IsTokenPattern(pat) == pat = <<>> \/ pat[Len(pat)] \notin DigitSet

\* the number a decimal numeral denotes
RECURSIVE DecimalValue(_)
DecimalValue(ds) ==
    IF ds = <<>> THEN 0
    ELSE DecimalValue(SubSeq(ds, 1, Len(ds) - 1)) * 10 + (CHOOSE v \in 0..9 : digits[v + 1] = ds[Len(ds)])

\* where the token whose character stands at index j begins
TokenStart(pat, j) ==
    CHOOSE i \in 1..j : /\ \A k \in i..(j - 1) : pat[k] \in DigitSet
                        /\ (i = 1 \/ pat[i - 1] \notin DigitSet)

TokenCount(pat, j) ==
    IF TokenStart(pat, j) = j THEN 1 ELSE DecimalValue(SubSeq(pat, TokenStart(pat, j), j - 1))

\* the position a token's character denotes
TokenPosition(c) == IF c \in PlaceholderLetters THEN PlaceholderSet(c) ELSE <<c>>

\* the mask of the tokens that end at or before index j
RECURSIVE ExpectedMask(_, _)
ExpectedMask(pat, j) ==
    IF j = 0 THEN <<>>
    ELSE IF pat[j] \in DigitSet THEN ExpectedMask(pat, j - 1)
    ELSE ExpectedMask(pat, j - 1) \o
             (IF pat[j] \in PlaceholderLetters
              THEN [k \in 1..(2 * TokenCount(pat, j)) |-> IF k % 2 = 1 THEN "?" ELSE pat[j]]
              ELSE [k \in 1..TokenCount(pat, j) |-> pat[j]])

\* the positions of the tokens that end at or before index j
RECURSIVE TokenPositions(_, _)
TokenPositions(pat, j) ==
    IF j = 0 THEN <<>>
    ELSE IF pat[j] \in DigitSet THEN TokenPositions(pat, j - 1)
    ELSE TokenPositions(pat, j - 1) \o [k \in 1..TokenCount(pat, j) |-> TokenPosition(pat[j])]

C22_BuildMaskTokens ==
    (built # <<>> /\ IsTokenPattern(pattern)) =>
        /\ built[1] = ExpectedMask(pattern, Len(pattern))
        /\ engine = "mask" =>
              /\ mask = built[1]
              /\ mask_positions = TokenPositions(pattern, Len(pattern))
        /\ pattern = <<"3", "l", "2", "d">> =>
              /\ built[1] = <<"?", "l", "?", "l", "?", "l", "?", "d", "?", "d">>
              /\ engine = "mask" => mask_positions = <<lowercase, lowercase, lowercase, digits, digits>>

C22_Witness ==
    /\ engine = "mask" /\ pattern = <<"3", "l", "2", "d">>
    /\ mask = <<"?", "l", "?", "l", "?", "l", "?", "d", "?", "d">>
    /\ mask_positions = <<lowercase, lowercase, lowercase, digits, digits>>

(***************************************************************************)
(* C30: the two mask keyspace estimators agree: for every mask built from  *)
(* literals and the placeholders ?l ?u ?d ?s ?a ?h ?H,                     *)
(* HashcatWrapper.calculate_mask_keyspace(mask) returns the same integer   *)
(* as MaskEngine(mask).estimate_total_attempts().                          *)
(***************************************************************************)
C30_KeyspaceEstimatorsAgree ==
    (engine = "mask" /\ keyspace # <<>>) => keyspace[1] = MaskEstimate

(***************************************************************************)
(* C26: two engine instances whose construction and runs are interleaved   *)
(* in any order, two MaskEngine instances with different masks and a       *)
(* HybridEngine included, each parse their own mask as when alone, each    *)
(* generate the candidate sequence of their own arguments, and each        *)
(* return the outcome, result and attempts of their run alone.  Both       *)
(* constructors write MaskEngine.MASK_CHARS['?a'], and both write the      *)
(* same value.                                                             *)
(***************************************************************************)
\* the cap of the run, 0 when there is none
AloneCap == IF Uncapped THEN 0 ELSE max_attempts[1]

\* rank of the first matching candidate, 0 when there is none
AloneFirst == IF MatchRanks = {} THEN 0 ELSE Least(MatchRanks)

\* what the run of the instance returns when no other instance exists
AloneRun ==
    IF AloneCap > 0 /\ AloneCap <= GeneratedTotal /\ (AloneFirst = 0 \/ AloneFirst >= AloneCap)
    THEN [outcome |-> "capped", result |-> None, attempts |-> AloneCap]
    ELSE IF AloneFirst > 0
    THEN [outcome |-> "found", result |-> GeneratedAt(AloneFirst), attempts |-> AloneFirst]
    ELSE [outcome |-> "exhausted", result |-> None, attempts |-> GeneratedTotal]

C26_InstancesAreIndependent ==
    /\ engine \in {"mask", "hybrid"} => mask_positions = ExpectedPositions(mask, 1)
    /\ (pc \in {"loop", "try", "done"} /\ pulled >= 1) => candidate = GeneratedAt(pulled)
    /\ Returned => (/\ outcome = AloneRun.outcome
                    /\ result = AloneRun.result
                    /\ attempts = AloneRun.attempts
                    /\ found = (AloneRun.outcome = "found")
                    /\ found_password = AloneRun.result)

C26_Witness ==
    /\ engine = "mask" /\ mask = <<"A", "?", "d", "B">> /\ pc = "try" /\ pulled = 2
    /\ candidate = <<"A", "1", "B">>
    /\ other.engine = "mask" /\ other.mask = <<"?", "a">> /\ other.pc = "try" /\ other.pulled = 2
    /\ other.candidate = <<"b">>
====
